---- MODULE Spec2Model ----
(***************************************************************************)
(* Job orchestration core of the CSV conversion service: the job store     *)
(* (utils/job_manager.py), the Plan-Code-Test retry loop                   *)
(* (core/workflow.py) and the process pool that runs jobs                  *)
(* (core/workflow_executor.py).                                            *)
(***************************************************************************)
EXTENDS Integers, Sequences, FiniteSets, TLC

\* core/workflow.py:67  max_cycles = 5
max_cycles == 5

\* core/workflow_executor.py:30  min(32, max(4, cpu_count * 2)) on two cores
max_workers == 4

\* One job more than the pool has workers.
MaxJobs == max_workers + 1

\* Longest feedback list a Tester result carries.
MaxFeedback == 1

JobIds == 1..MaxJobs

\* The job the retry-loop specification follows from creation to its end.
DirectJobs == {1}

\* Python's None where the field is otherwise a string.
NoneStr == "None"

\* Python's None where the field is otherwise a dict.
None == [none |-> TRUE]

\* A job id that is not a key of the table.
NoJob == [absent |-> TRUE]

\* An empty dict.
EmptyDict == [k \in {} |-> TRUE]

\* dict.update: key-wise upsert of u into d.
Merge(d, u) == [k \in (DOMAIN d) \cup (DOMAIN u) |-> IF k \in DOMAIN u THEN u[k] ELSE d[k]]

\* dict.get(key, default).
Get(d, key, default) == IF key \in DOMAIN d THEN d[key] ELSE default

\* models/schemas.py JobStatus
PENDING == "pending"
INITIALIZING == "initializing"
PLANNING == "planning"
CODING == "coding"
TESTING == "testing"
COMPLETED == "completed"
FAILED == "failed"

\* models/schemas.py OperationMode
TRAINING == "training"
INFERENCE == "inference"

Terminal == {COMPLETED, FAILED}

VARIABLES
    jobs,               \* JobManager._jobs of the admission process
    jobs_file,          \* temp/jobs.json
    pc,                 \* where each job's execute_conversion_job stands
    current_cycle,      \* execute_conversion_job locals, per job
    previous_attempts,
    agent_feedback,
    planner_result,
    coder_result,
    tester_result,
    planner_task,       \* the task_data last handed to the Planner
    coder_task,         \* the task_data last handed to the Coder
    result,             \* what execute_conversion_job returned
    executor,           \* WorkflowExecutorService.executor
    active_jobs,        \* WorkflowExecutorService.active_jobs (its keys)
    queue_size,         \* WorkflowExecutorService.queue_size
    future,             \* the future of each submitted job
    wpc,                \* where each job's _execute_workflow_process stands
    wjobs,              \* the JobManager() a worker builds for its S3 setup
    loop_thread,        \* the event-loop thread inside lines 118-143 of submit_workflow
    executor_thread,    \* the executor's thread inside _job_completed
    last_call,          \* the last store call that returned to its caller, and what it returned
    returned,           \* the record a caller holds from get_job or list_jobs
    age_hours,          \* hours since each job's last update_job_status
    write_lock,         \* JobManager._write_lock: the caller that holds it, or 0
    calls,              \* the store call each caller is in
    serial              \* the store had every call run alone, in the order the lock was taken

wfvars == <<pc, current_cycle, previous_attempts, agent_feedback, planner_result,
            coder_result, tester_result, planner_task, coder_task, result>>
poolvars == <<executor, active_jobs, queue_size, future, wpc, wjobs,
              loop_thread, executor_thread>>
lockvars == <<write_lock, calls, serial>>
storevars == <<returned, age_hours, lockvars>>
vars == <<jobs, jobs_file, wfvars, poolvars, last_call, storevars>>

-----------------------------------------------------------------------------
(* utils/job_manager.py *)

\* _save_jobs: datetimes are written as ISO strings.
SaveRecord(job) ==
    IF job = NoJob THEN NoJob
    ELSE [job EXCEPT !.completed_at = IF @ = "datetime" THEN "isoformat" ELSE @]

_save_jobs(table) == [j \in DOMAIN table |-> SaveRecord(table[j])]

\* _load_jobs: ISO strings are parsed back into datetimes.
LoadRecord(job) ==
    IF job = NoJob THEN NoJob
    ELSE [job EXCEPT !.completed_at = IF @ = "isoformat" THEN "datetime" ELSE @]

_load_jobs(file) == [j \in DOMAIN file |-> LoadRecord(file[j])]

\* The record create_job builds; it has no completed_at key.
NewJob(mode, client_id) ==
    [status |-> PENDING,
     mode |-> mode,
     client_id |-> client_id,
     current_step |-> None,
     progress_details |-> EmptyDict,
     error_message |-> NoneStr,
     generated_script |-> NoneStr,
     generated_script_path |-> NoneStr,
     test_results |-> None,
     agent_results |-> <<>>,
     inference_output |-> None,
     completed_at |-> NoneStr]

create_job(table, job_id, mode, client_id) ==
    [table EXCEPT ![job_id] = NewJob(mode, client_id)]

\* update_job_status that puts the progress report in place of the old one.
UpdatedJob_replaces_progress(job, status, current_step, progress_details, error_message) ==
    [job EXCEPT
        !.status = status,
        !.current_step = IF current_step # None THEN current_step ELSE @,
        !.progress_details = IF progress_details # None THEN progress_details ELSE @,
        !.error_message = IF error_message # NoneStr THEN error_message ELSE @,
        !.completed_at = IF status \in {COMPLETED, FAILED} /\ job.mode = TRAINING
                         THEN "datetime" ELSE @]

\* The record update_job_status leaves in the table.
UpdatedJob(job, status, current_step, progress_details, error_message) ==
    [job EXCEPT
        !.status = status,
        !.current_step = IF current_step # None THEN current_step ELSE @,
        !.progress_details = IF progress_details # None THEN Merge(@, progress_details) ELSE @,
        !.error_message = IF error_message # NoneStr THEN error_message ELSE @,
        !.completed_at = IF status \in {COMPLETED, FAILED} /\ job.mode = TRAINING
                         THEN "datetime" ELSE @]

\* update_job_status that creates the record it does not find.
update_job_status_upsert(table, job_id, status, current_step, progress_details, error_message) ==
    [table EXCEPT ![job_id] =
        UpdatedJob(IF @ = NoJob THEN NewJob(TRAINING, NoneStr) ELSE @,
                   status, current_step, progress_details, error_message)]

update_job_status(table, job_id, status, current_step, progress_details, error_message) ==
    IF table[job_id] = NoJob THEN table
    ELSE [table EXCEPT ![job_id] =
            UpdatedJob(@, status, current_step, progress_details, error_message)]

\* update_job_status called on table: False for an unknown job id, else True.
UpdateCall(table, job_id) ==
    [op |-> "update_job_status", job_id |-> job_id, returned |-> table[job_id] # NoJob]

\* No store call has returned yet.
NoCall == [op |-> "none"]

\* No caller holds a record.
NoSnapshot == [held |-> FALSE]

\* The coroutines that call the store at the same time.
Callers == {1, 2}

\* A caller that is in no store call.
Idle == [pc |-> "idle"]

AgentResult(agent_name, success, output, error) ==
    [agent_name |-> agent_name, success |-> success, output |-> output, error |-> error]

\* add_agent_result with the entry assigned instead of appended.
add_agent_result_overwrites(table, job_id, agent_name, success, output, error) ==
    IF table[job_id] = NoJob THEN table
    ELSE [table EXCEPT ![job_id].agent_results =
            <<AgentResult(agent_name, success, output, error)>>]

add_agent_result(table, job_id, agent_name, success, output, error) ==
    IF table[job_id] = NoJob THEN table
    ELSE [table EXCEPT ![job_id].agent_results =
            Append(@, AgentResult(agent_name, success, output, error))]

\* set_generated_script that keeps a script the record already holds.
set_generated_script_keeps_first(table, job_id, script_content, script_path) ==
    IF table[job_id] = NoJob THEN table
    ELSE IF table[job_id].generated_script # NoneStr THEN table
    ELSE [table EXCEPT ![job_id].generated_script = script_content,
                       ![job_id].generated_script_path = script_path]

set_generated_script(table, job_id, script_content, script_path) ==
    IF table[job_id] = NoJob THEN table
    ELSE [table EXCEPT ![job_id].generated_script = script_content,
                       ![job_id].generated_script_path =
                            IF script_path # NoneStr THEN script_path ELSE @]

set_test_results(table, job_id, test_results) ==
    IF table[job_id] = NoJob THEN table
    ELSE [table EXCEPT ![job_id].test_results = test_results]

-----------------------------------------------------------------------------
(* The phase collaborators *)

\* agents/planner_agent.py execute_task: what the Planner returns.
PlannerReturn(outcome) ==
    IF outcome = "ok"
    THEN [success |-> TRUE, plan |-> "plan"]
    ELSE [success |-> FALSE, error |-> "Failed to create transformation plan", plan |-> NoneStr]

\* The Planner returns a plan, returns a failure, or raises.
PlannerOutcomes == {"ok", "fail", "raise"}

\* The script the Coder writes in a cycle.
ScriptOf(cycle) == "script_v" \o ToString(cycle)

\* agents/coder_agent.py execute_task: what the Coder returns; a successful
\* result always carries a non-empty script (_ensure_pep723_format).
CoderReturn(outcome, cycle) ==
    IF outcome = "ok"
    THEN [success |-> TRUE, script_content |-> ScriptOf(cycle)]
    ELSE [success |-> FALSE, error |-> "Failed to generate Python script", script_content |-> NoneStr]

CoderOutcomes == {"ok", "fail", "raise"}

\* utils.file_handlers.save_user_script: stores the script, returns its path.
save_user_script(script_content, job_id) == "scripts/" \o script_content \o ".py"

FeedbackItem(issue_type, suggestion, error_details) ==
    [issue_type |-> issue_type, suggestion |-> suggestion, error_details |-> error_details]

\* Suggestion texts a comparison may carry.
FeedbackTexts == {"rename column X"}

SeqsUpTo(S, n) == UNION {[1..k -> S] : k \in 0..n}

\* comparison_result.feedback_for_coder, and the Tester's own fix proposals.
FeedbackLists ==
    SeqsUpTo({FeedbackItem("output_mismatch", t, NoneStr) : t \in FeedbackTexts}, MaxFeedback)

\* comparison_result.suggestions
SuggestionLists == {<<>>, <<"rename column X">>}

\* comparison_result: a mapping {suggestions, feedback_for_coder}.
Comparisons ==
    {[suggestions |-> s, feedback_for_coder |-> f] : s \in SuggestionLists, f \in FeedbackLists}

\* What the Tester returns in a cycle: {success, test_passed,
\* comparison_result?, feedback_for_coder?, test_report?, error?}.
TesterReturns(cycle) ==
    {[success |-> TRUE, test_passed |-> TRUE]}
    \cup {[success |-> TRUE, test_passed |-> FALSE]}
    \cup {[success |-> TRUE, test_passed |-> FALSE, comparison_result |-> c,
           test_report |-> "report_c" \o ToString(cycle)] : c \in Comparisons}
    \cup {[success |-> FALSE, test_passed |-> FALSE, error |-> "Script execution failed"]}
    \cup {[success |-> FALSE, test_passed |-> FALSE, error |-> "Script execution failed",
           feedback_for_coder |-> f] : f \in FeedbackLists \ {<<>>}}

\* The Tester returns a result, or raises.
TesterOutcomes(cycle) ==
    {[raised |-> TRUE]} \cup {[raised |-> FALSE, value |-> r] : r \in TesterReturns(cycle)}

-----------------------------------------------------------------------------
(* core/workflow.py: the phases *)

\* _execute_planner_phase whose except clause records no audit entry.
_execute_planner_phase_no_audit(table, job_id, outcome) ==
    IF outcome = "raise"
    THEN [table |-> table,
          result |-> [success |-> FALSE, error |-> "Planner phase error: planner raised"]]
    ELSE LET r == PlannerReturn(outcome)
         IN [table |-> add_agent_result(table, job_id, "Planner", r.success,
                                        IF r.success THEN r.plan ELSE NoneStr,
                                        Get(r, "error", NoneStr)),
             result |-> r]

\* _execute_planner_phase: the table and the result it leaves.
_execute_planner_phase(table, job_id, outcome) ==
    IF outcome = "raise"
    THEN [table |-> add_agent_result(table, job_id, "Planner", FALSE, NoneStr,
                                     "Planner phase error: planner raised"),
          result |-> [success |-> FALSE, error |-> "Planner phase error: planner raised"]]
    ELSE LET r == PlannerReturn(outcome)
         IN [table |-> add_agent_result(table, job_id, "Planner", r.success,
                                        IF r.success THEN r.plan ELSE NoneStr,
                                        Get(r, "error", NoneStr)),
             result |-> r]

\* _execute_coder_phase that hands the script to the Tester without storing it
\* on the job.
_execute_coder_phase_without_store(table, job_id, outcome, cycle) ==
    IF outcome = "raise"
    THEN [table |-> add_agent_result(table, job_id, "Coder", FALSE, NoneStr,
                                     "Coder phase error: coder raised"),
          result |-> [success |-> FALSE, error |-> "Coder phase error: coder raised"]]
    ELSE LET r == CoderReturn(outcome, cycle)
             saves == r.success /\ r.script_content # NoneStr
             path == save_user_script(r.script_content, job_id)
             r1 == IF saves THEN Merge(r, [generated_script_path |-> path]) ELSE r
         IN [table |-> add_agent_result(table, job_id, "Coder", r.success,
                                        IF r.success THEN "Generated script" ELSE NoneStr,
                                        Get(r, "error", NoneStr)),
             result |-> r1]

\* _execute_coder_phase
_execute_coder_phase(table, job_id, outcome, cycle) ==
    IF outcome = "raise"
    THEN [table |-> add_agent_result(table, job_id, "Coder", FALSE, NoneStr,
                                     "Coder phase error: coder raised"),
          result |-> [success |-> FALSE, error |-> "Coder phase error: coder raised"]]
    ELSE LET r == CoderReturn(outcome, cycle)
             saves == r.success /\ r.script_content # NoneStr
             path == save_user_script(r.script_content, job_id)
             t1 == IF saves THEN set_generated_script(table, job_id, r.script_content, path)
                   ELSE table
             r1 == IF saves THEN Merge(r, [generated_script_path |-> path]) ELSE r
         IN [table |-> add_agent_result(t1, job_id, "Coder", r.success,
                                        IF r.success THEN "Generated script" ELSE NoneStr,
                                        Get(r, "error", NoneStr)),
             result |-> r1]

\* _execute_tester_phase
_execute_tester_phase(table, job_id, coder_res, outcome) ==
    IF "generated_script_path" \notin DOMAIN coder_res
    THEN [table |-> table,
          result |-> [success |-> FALSE, error |-> "No script path found in coder result"]]
    ELSE IF outcome.raised
    THEN [table |-> add_agent_result(table, job_id, "Tester", FALSE, NoneStr,
                                     "Tester phase error: tester raised"),
          result |-> [success |-> FALSE, error |-> "Tester phase error: tester raised"]]
    ELSE LET r == outcome.value
             t1 == IF r.success
                   THEN set_test_results(table, job_id,
                            [test_passed |-> Get(r, "test_passed", FALSE),
                             comparison_result |-> Get(r, "comparison_result", EmptyDict)])
                   ELSE table
         IN [table |-> add_agent_result(t1, job_id, "Tester", r.success,
                                        IF r.success
                                        THEN (IF Get(r, "test_passed", FALSE)
                                              THEN "Test passed" ELSE "Test failed")
                                        ELSE NoneStr,
                                        Get(r, "error", NoneStr)),
             result |-> r]

\* _handle_job_completion that reports the summary under the TESTING status.
_handle_job_completion_keeps_status(table, job_id) ==
    update_job_status(table, job_id, TESTING, [text |-> "Completed"],
        [phase |-> "completed", step |-> 3, total_steps |-> 3,
         summary |-> "All phases completed successfully"],
        NoneStr)

\* _handle_job_completion
_handle_job_completion(table, job_id) ==
    update_job_status(table, job_id, COMPLETED, [text |-> "Completed"],
        [phase |-> "completed", step |-> 3, total_steps |-> 3,
         summary |-> "All phases completed successfully"],
        NoneStr)

\* _handle_job_failure that stores the reason without the details.
_handle_job_failure_reason_only(table, job_id, failure_reason, error_details) ==
    update_job_status(table, job_id, FAILED, [text |-> "Failed"],
        [failure_reason |-> failure_reason], failure_reason)

\* _handle_job_failure
_handle_job_failure(table, job_id, failure_reason, error_details) ==
    update_job_status(table, job_id, FAILED, [text |-> "Failed"],
        [failure_reason |-> failure_reason],
        IF error_details # NoneStr THEN failure_reason \o ": " \o error_details
        ELSE failure_reason)

-----------------------------------------------------------------------------
(* core/workflow.py: execute_conversion_job *)

\* A call on job_id saves the table only when job_id is one of its keys.
Persist(before, job_id, after, file) ==
    IF before[job_id] = NoJob THEN file ELSE _save_jobs(after)

\* while current_cycle < max_cycles
LoopGuard(cycle) == cycle < max_cycles

\* The retry test off by one upwards: a sixth cycle is announced.
MayRetry_inclusive(cycle) == cycle <= max_cycles

\* The retry test off by one downwards: the last cycle is never run.
MayRetry_short(cycle) == cycle < max_cycles - 1

\* if current_cycle < max_cycles: the failed cycle is followed by another.
MayRetry(cycle) == cycle < max_cycles

\* tester_result["success"] and tester_result.get("test_passed", False)
TestPassed(tr) == tr.success /\ Get(tr, "test_passed", FALSE)

Step(text, cycle) == [text |-> text, cycle |-> cycle]

\* An attempt filed under the number of the cycle that follows it.
AttemptResult_next_cycle(pr, cr, tr, cycle) ==
    [planner_result |-> pr, coder_result |-> cr, tester_result |-> tr, cycle |-> cycle + 1]

AttemptResult(pr, cr, tr, cycle) ==
    [planner_result |-> pr, coder_result |-> cr, tester_result |-> tr, cycle |-> cycle]

\* The dict execute_conversion_job compiles after the loop.
FinalResult(success, final_status, cycle) ==
    [success |-> success, status |-> final_status, cycles |-> cycle]

\* The dict an early return hands back.
FailureResult(error_msg) == [success |-> FALSE, status |-> FAILED, error |-> error_msg]

\* The retry update writing PLANNING itself instead of PENDING.
RetryUpdate_into_planning(table, job_id, text, cycle) ==
    update_job_status(table, job_id, PLANNING, Step(text, cycle + 1),
        [phase |-> "improvement", cycle |-> cycle + 1], NoneStr)

\* The update that sends a failed cycle into the next one.
RetryUpdate(table, job_id, text, cycle) ==
    update_job_status(table, job_id, PENDING, Step(text, cycle + 1),
        [phase |-> "improvement", cycle |-> cycle + 1], NoneStr)

\* ExtractFeedback reading the comparison under a key it does not carry.
ExtractFeedback_wrong_key(tr, feedback) ==
    IF ~tr.success
    THEN LET error_msg == Get(tr, "error", "Script execution failed")
             extra_feedback == Get(tr, "feedback_for_coder", <<>>)
         IN [raised |-> FALSE,
             feedback_for_coder |->
                <<FeedbackItem("execution_error",
                               "Fix script execution error: " \o error_msg, error_msg)>>
                \o extra_feedback,
             agent_feedback |-> feedback]
    ELSE IF "comparison_result" \in DOMAIN tr
    THEN LET fb == Get(tr.comparison_result, "feedback", <<>>)
         IN [raised |-> FALSE,
             feedback_for_coder |-> fb,
             agent_feedback |->
                IF fb # <<>>
                THEN Merge(feedback, [coder_feedback |-> fb,
                                      test_report |-> Get(tr, "test_report", "")])
                ELSE feedback]
    ELSE [raised |-> FALSE, feedback_for_coder |-> <<>>, agent_feedback |-> feedback]

\* Lines 216-251: the feedback list drawn from a failed test, the feedback dict
\* as that extraction leaves it, and whether the extraction raised
\* (comparison_result is not a mapping: no Tester result here is like that,
\* and the store calls of the loop swallow their own errors).
ExtractFeedback(tr, feedback) ==
    IF ~tr.success
    THEN LET error_msg == Get(tr, "error", "Script execution failed")
             extra_feedback == Get(tr, "feedback_for_coder", <<>>)
         IN [raised |-> FALSE,
             feedback_for_coder |->
                <<FeedbackItem("execution_error",
                               "Fix script execution error: " \o error_msg, error_msg)>>
                \o extra_feedback,
             agent_feedback |-> feedback]
    ELSE IF "comparison_result" \in DOMAIN tr
    THEN IF tr.comparison_result = None
         THEN [raised |-> TRUE, feedback_for_coder |-> <<>>, agent_feedback |-> feedback]
         ELSE LET fb == Get(tr.comparison_result, "feedback_for_coder", <<>>)
              IN [raised |-> FALSE,
                  feedback_for_coder |-> fb,
                  agent_feedback |->
                     IF fb # <<>>
                     THEN Merge(feedback, [coder_feedback |-> fb,
                                           test_report |-> Get(tr, "test_report", "")])
                     ELSE feedback]
    ELSE [raised |-> FALSE, feedback_for_coder |-> <<>>, agent_feedback |-> feedback]

\* Lines 253-256: a non-empty list replaces coder_feedback.
StoreFeedback(tr, fb, feedback) ==
    IF fb # <<>>
    THEN Merge(Merge(feedback, [coder_feedback |-> fb]),
               IF "test_report" \in DOMAIN tr
               THEN [test_report |-> tr.test_report] ELSE EmptyDict)
    ELSE feedback

\* The retry decision without the test on the feedback list.
RetryAfterTest_without_feedback(fb, cycle) == MayRetry(cycle)

\* Lines 253 and 259: the failed test is followed by another cycle.
RetryAfterTest(fb, cycle) == fb # <<>> /\ MayRetry(cycle)

\* Lines 269-278: how a failed test fails the job.
FailAfterTest(table, job_id, tr) ==
    _handle_job_failure(table, job_id,
        IF tr.success THEN "Testing failed" ELSE Get(tr, "error", "Unknown testing error"),
        Get(tr, "error", NoneStr))

\* The facade creates the job record (create_job).
CreateJob(j, mode) ==
    /\ jobs[j] = NoJob
    /\ pc[j] = "idle"
    /\ jobs' = create_job(jobs, j, mode, "client")
    /\ jobs_file' = _save_jobs(jobs')
    /\ UNCHANGED <<wfvars, poolvars, last_call, storevars>>

\* The mode test made against the name of the enum member.
IsInferenceJob_by_name(job) == job.mode = "INFERENCE"

\* Lines 55-58: job_mode == "inference"
IsInferenceJob(job) == job.mode = INFERENCE

\* execute_conversion_job up to the loop: lines 45-75.
StartJob(j) ==
    /\ pc[j] = "idle"
    /\ IF jobs[j] = NoJob
       THEN /\ pc' = [pc EXCEPT ![j] = "done"]
            /\ result' = [result EXCEPT ![j] = FailureResult("Job not found")]
            /\ UNCHANGED <<jobs, jobs_file, last_call, storevars>>
       ELSE IF IsInferenceJob(jobs[j])
       THEN IF jobs[j].client_id = NoneStr
            THEN /\ jobs' = _handle_job_failure(jobs, j, "Missing client ID",
                                                "Client ID required for inference job")
                 /\ jobs_file' = Persist(jobs, j, jobs', jobs_file)
                 /\ pc' = [pc EXCEPT ![j] = "done"]
                 /\ result' = [result EXCEPT ![j] =
                                  FailureResult("Client ID required for inference job")]
                 /\ last_call' = UpdateCall(jobs, j)
                 /\ UNCHANGED storevars
            ELSE /\ pc' = [pc EXCEPT ![j] = "inference"]
                 /\ UNCHANGED <<jobs, jobs_file, result, last_call, storevars>>
       ELSE /\ pc' = [pc EXCEPT ![j] = "loop"]
            /\ UNCHANGED <<jobs, jobs_file, result, last_call, storevars>>
    /\ current_cycle' = [current_cycle EXCEPT ![j] = 0]
    /\ previous_attempts' = [previous_attempts EXCEPT ![j] = <<>>]
    /\ agent_feedback' = [agent_feedback EXCEPT ![j] = EmptyDict]
    /\ planner_result' = [planner_result EXCEPT ![j] = [success |-> FALSE, error |-> "Not executed"]]
    /\ coder_result' = [coder_result EXCEPT ![j] = [success |-> FALSE, error |-> "Not executed"]]
    /\ tester_result' = [tester_result EXCEPT ![j] = [success |-> FALSE, error |-> "Not executed"]]
    /\ UNCHANGED <<planner_task, coder_task, poolvars>>

\* A phase result that counts as a success whatever it says.
PhaseSucceeded_always(phase_result) == TRUE

\* planner_result["success"], coder_result["success"]: lines 104 and 155.
PhaseSucceeded(phase_result) == phase_result.success

\* The head of a cycle: lines 77-88.
BeginCycle(j) ==
    /\ pc[j] = "loop"
    /\ IF LoopGuard(current_cycle[j])
       THEN /\ current_cycle' = [current_cycle EXCEPT ![j] = @ + 1]
            /\ jobs' = update_job_status(jobs, j, PLANNING,
                           Step("Planning Phase", current_cycle[j] + 1),
                           [phase |-> "analysis", step |-> 1, total_steps |-> 3,
                            cycle |-> current_cycle[j] + 1],
                           NoneStr)
            /\ jobs_file' = Persist(jobs, j, jobs', jobs_file)
            /\ pc' = [pc EXCEPT ![j] = "planner"]
            /\ last_call' = UpdateCall(jobs, j)
            /\ UNCHANGED storevars
       ELSE \* the loop ends with success and final_status unbound: line 292 raises
            /\ pc' = [pc EXCEPT ![j] = "raised"]
            /\ UNCHANGED <<current_cycle, jobs, jobs_file, last_call, storevars>>
    /\ UNCHANGED <<previous_attempts, agent_feedback, planner_result, coder_result,
                   tester_result, planner_task, coder_task, result, poolvars>>

\* The Planner phase and what follows it: lines 90-142.
PlannerStep(j) ==
    /\ pc[j] = "planner"
    /\ \E outcome \in PlannerOutcomes :
        LET cycle == current_cycle[j]
            phase == _execute_planner_phase(jobs, j, outcome)
            pr == phase.result
            error_msg == Get(pr, "error", "Unknown planning error")
        IN /\ planner_task' = [planner_task EXCEPT ![j] =
                  [previous_attempts |-> previous_attempts[j],
                   agent_feedback |-> agent_feedback[j]]]
           /\ planner_result' = [planner_result EXCEPT ![j] = pr]
           /\ IF ~PhaseSucceeded(pr)
              THEN /\ previous_attempts' = [previous_attempts EXCEPT ![j] =
                          Append(@, AttemptResult(pr, None, None, cycle))]
                   /\ agent_feedback' = [agent_feedback EXCEPT ![j] =
                          Merge(@, [coder_feedback |->
                              <<FeedbackItem("planning_error",
                                             "Planning failed: " \o error_msg, error_msg)>>])]
                   /\ IF MayRetry(cycle)
                      THEN /\ jobs' = RetryUpdate(phase.table, j, "Retry planning", cycle)
                           /\ pc' = [pc EXCEPT ![j] = "loop"]
                           /\ UNCHANGED result
                      ELSE /\ jobs' = _handle_job_failure(phase.table, j,
                                          "Planning failed", error_msg)
                           /\ pc' = [pc EXCEPT ![j] = "done"]
                           /\ result' = [result EXCEPT ![j] = FinalResult(FALSE, FAILED, cycle)]
              ELSE /\ jobs' = update_job_status(phase.table, j, CODING,
                                  Step("Coding Phase", cycle),
                                  [phase |-> "generation", step |-> 2, total_steps |-> 3,
                                   cycle |-> cycle],
                                  NoneStr)
                   /\ pc' = [pc EXCEPT ![j] = "coder"]
                   /\ UNCHANGED <<previous_attempts, agent_feedback, result>>
           /\ jobs_file' = Persist(jobs, j, jobs', jobs_file)
    /\ UNCHANGED <<current_cycle, coder_result, tester_result, coder_task, poolvars>>
    /\ last_call' = UpdateCall(jobs, j)
    /\ UNCHANGED storevars

\* The Coder phase and what follows it: lines 144-194.
CoderStep(j) ==
    /\ pc[j] = "coder"
    /\ \E outcome \in CoderOutcomes :
        LET cycle == current_cycle[j]
            phase == _execute_coder_phase(jobs, j, outcome, cycle)
            cr == phase.result
            error_msg == Get(cr, "error", "Unknown code generation error")
        IN /\ coder_task' = [coder_task EXCEPT ![j] =
                  [plan |-> planner_result[j].plan, agent_feedback |-> agent_feedback[j]]]
           /\ coder_result' = [coder_result EXCEPT ![j] = cr]
           /\ IF ~PhaseSucceeded(cr)
              THEN /\ previous_attempts' = [previous_attempts EXCEPT ![j] =
                          Append(@, AttemptResult(planner_result[j], cr, None, cycle))]
                   /\ agent_feedback' = [agent_feedback EXCEPT ![j] =
                          Merge(@, [coder_feedback |->
                              <<FeedbackItem("generation_error",
                                             "Code generation failed: " \o error_msg,
                                             error_msg)>>])]
                   /\ IF MayRetry(cycle)
                      THEN /\ jobs' = RetryUpdate(phase.table, j,
                                          "Improving based on coder error", cycle)
                           /\ pc' = [pc EXCEPT ![j] = "loop"]
                           /\ UNCHANGED result
                      ELSE /\ jobs' = _handle_job_failure(phase.table, j,
                                          "Code generation failed", error_msg)
                           /\ pc' = [pc EXCEPT ![j] = "done"]
                           /\ result' = [result EXCEPT ![j] = FinalResult(FALSE, FAILED, cycle)]
              ELSE /\ jobs' = update_job_status(phase.table, j, TESTING,
                                  Step("Testing Phase", cycle),
                                  [phase |-> "validation", step |-> 3, total_steps |-> 3,
                                   cycle |-> cycle],
                                  NoneStr)
                   /\ pc' = [pc EXCEPT ![j] = "tester"]
                   /\ UNCHANGED <<previous_attempts, agent_feedback, result>>
           /\ jobs_file' = Persist(jobs, j, jobs', jobs_file)
    /\ UNCHANGED <<current_cycle, planner_result, tester_result, planner_task, poolvars>>
    /\ last_call' = UpdateCall(jobs, j)
    /\ UNCHANGED storevars

\* The Tester phase and what follows it: lines 196-287.
TesterStep(j) ==
    /\ pc[j] = "tester"
    /\ \E outcome \in TesterOutcomes(current_cycle[j]) :
        LET cycle == current_cycle[j]
            phase == _execute_tester_phase(jobs, j, coder_result[j], outcome)
            tr == phase.result
            ex == ExtractFeedback(tr, agent_feedback[j])
            fb == ex.feedback_for_coder
        IN /\ tester_result' = [tester_result EXCEPT ![j] = tr]
           /\ IF TestPassed(tr)
              THEN /\ jobs' = _handle_job_completion(phase.table, j)
                   /\ pc' = [pc EXCEPT ![j] = "done"]
                   /\ result' = [result EXCEPT ![j] = FinalResult(TRUE, COMPLETED, cycle)]
                   /\ UNCHANGED <<previous_attempts, agent_feedback>>
              ELSE /\ previous_attempts' = [previous_attempts EXCEPT ![j] =
                          Append(@, AttemptResult(planner_result[j], coder_result[j], tr, cycle))]
                   /\ IF ex.raised
                      THEN \* except Exception: lines 283-287
                           /\ agent_feedback' = [agent_feedback EXCEPT ![j] = ex.agent_feedback]
                           /\ jobs' = _handle_job_failure(phase.table, j, "Workflow error",
                                          "Unexpected error in conversion workflow")
                           /\ pc' = [pc EXCEPT ![j] = "done"]
                           /\ result' = [result EXCEPT ![j] =
                                  FailureResult("Unexpected error in conversion workflow")]
                      ELSE /\ agent_feedback' = [agent_feedback EXCEPT ![j] =
                                  StoreFeedback(tr, fb, ex.agent_feedback)]
                           /\ IF RetryAfterTest(fb, cycle)
                              THEN /\ jobs' = RetryUpdate(phase.table, j,
                                                  "Improving based on feedback", cycle)
                                   /\ pc' = [pc EXCEPT ![j] = "loop"]
                                   /\ UNCHANGED result
                              ELSE /\ jobs' = FailAfterTest(phase.table, j, tr)
                                   /\ pc' = [pc EXCEPT ![j] = "done"]
                                   /\ result' = [result EXCEPT ![j] =
                                          FinalResult(FALSE, FAILED, cycle)]
           /\ jobs_file' = Persist(jobs, j, jobs', jobs_file)
    /\ UNCHANGED <<current_cycle, planner_result, coder_result, planner_task, coder_task,
                   poolvars>>
    /\ last_call' = UpdateCall(jobs, j)
    /\ UNCHANGED storevars

-----------------------------------------------------------------------------
(* core/workflow.py: execute_inference_job *)

set_inference_output(table, job_id, output_data) ==
    IF table[job_id] = NoJob THEN table
    ELSE [table EXCEPT ![job_id].inference_output = [csv_content |-> output_data]]

\* _handle_inference_completion
_handle_inference_completion(table, job_id) ==
    update_job_status(table, job_id, COMPLETED, [text |-> "Inference completed"],
        [phase |-> "completed", execution_time |-> "seconds", output_file |-> ""],
        NoneStr)

\* Lines 329-336: the job is reported as loading its trained model.
InferenceStart(j) ==
    /\ pc[j] = "inference"
    /\ jobs' = update_job_status(jobs, j, PLANNING, [text |-> "Loading trained model"],
                   [phase |-> "inference", step |-> 1, total_steps |-> 2], NoneStr)
    /\ jobs_file' = Persist(jobs, j, jobs', jobs_file)
    /\ pc' = [pc EXCEPT ![j] = "inference_lookup"]
    /\ UNCHANGED <<current_cycle, previous_attempts, agent_feedback, planner_result,
                   coder_result, tester_result, planner_task, coder_task, result, poolvars>>
    /\ last_call' = UpdateCall(jobs, j)
    /\ UNCHANGED storevars

\* Lines 338-357: the client's latest script is looked up; UUID(client_id)
\* raises on a client id that is no UUID.
InferenceLookup(j) ==
    /\ pc[j] = "inference_lookup"
    /\ \E found \in {"script", "no_script", "bad_client_id"} :
        CASE found = "script" ->
                /\ jobs' = update_job_status(jobs, j, CODING, [text |-> "Executing inference"],
                               [phase |-> "inference", step |-> 2, total_steps |-> 2], NoneStr)
                /\ pc' = [pc EXCEPT ![j] = "inference_execute"]
                /\ UNCHANGED result
          [] found = "no_script" ->
                /\ jobs' = _handle_job_failure(jobs, j, "No trained model",
                               "No trained model found for client")
                /\ pc' = [pc EXCEPT ![j] = "done"]
                /\ result' = [result EXCEPT ![j] =
                                 FailureResult("No trained model found for client")]
          [] found = "bad_client_id" ->
                /\ jobs' = _handle_job_failure(jobs, j, "Inference workflow error",
                               "Unexpected error in inference workflow")
                /\ pc' = [pc EXCEPT ![j] = "done"]
                /\ result' = [result EXCEPT ![j] =
                                 FailureResult("Unexpected error in inference workflow")]
    /\ jobs_file' = Persist(jobs, j, jobs', jobs_file)
    /\ UNCHANGED <<current_cycle, previous_attempts, agent_feedback, planner_result,
                   coder_result, tester_result, planner_task, coder_task, poolvars>>
    /\ last_call' = UpdateCall(jobs, j)
    /\ UNCHANGED storevars

\* Lines 359-370: the script runs once (_execute_inference_phase).
InferenceExecute(j) ==
    /\ pc[j] = "inference_execute"
    /\ \E ran \in BOOLEAN :
        IF ran
        THEN /\ jobs' = _handle_inference_completion(
                            set_inference_output(jobs, j, "csv"), j)
             /\ result' = [result EXCEPT ![j] = [success |-> TRUE, output_csv_content |-> "csv"]]
        ELSE /\ jobs' = _handle_job_failure(jobs, j, "Inference failed",
                            "Script execution failed")
             /\ result' = [result EXCEPT ![j] =
                              [success |-> FALSE, error |-> "Script execution failed"]]
    /\ jobs_file' = Persist(jobs, j, jobs', jobs_file)
    /\ pc' = [pc EXCEPT ![j] = "done"]
    /\ UNCHANGED <<current_cycle, previous_attempts, agent_feedback, planner_result,
                   coder_result, tester_result, planner_task, coder_task, poolvars>>
    /\ last_call' = UpdateCall(jobs, j)
    /\ UNCHANGED storevars

-----------------------------------------------------------------------------
(* The retry loop on one job, run in the process that holds the store *)

NoFuture == [state |-> "none"]

\* A thread that is in neither submit_workflow's last lines nor a callback.
NoFrame == [job |-> 0]

Init ==
    /\ jobs = [j \in JobIds |-> NoJob]
    /\ jobs_file = [j \in JobIds |-> NoJob]
    /\ pc = [j \in JobIds |-> "idle"]
    /\ current_cycle = [j \in JobIds |-> 0]
    /\ previous_attempts = [j \in JobIds |-> <<>>]
    /\ agent_feedback = [j \in JobIds |-> EmptyDict]
    /\ planner_result = [j \in JobIds |-> None]
    /\ coder_result = [j \in JobIds |-> None]
    /\ tester_result = [j \in JobIds |-> None]
    /\ planner_task = [j \in JobIds |-> None]
    /\ coder_task = [j \in JobIds |-> None]
    /\ result = [j \in JobIds |-> None]
    /\ executor = "pool"
    /\ active_jobs = {}
    /\ queue_size = 0
    /\ future = [j \in JobIds |-> NoFuture]
    /\ loop_thread = NoFrame
    /\ executor_thread = NoFrame
    /\ wpc = [j \in JobIds |-> "idle"]
    /\ wjobs = [j \in JobIds |-> None]
    /\ last_call = NoCall
    /\ returned = NoSnapshot
    /\ age_hours = [j \in JobIds |-> 0]
    /\ write_lock = 0
    /\ calls = [c \in Callers |-> Idle]
    /\ serial = [jobs |-> jobs, jobs_file |-> jobs_file]

Next ==
    \E j \in DirectJobs :
        \/ \E mode \in {TRAINING, INFERENCE} : CreateJob(j, mode)
        \/ StartJob(j)
        \/ BeginCycle(j)
        \/ PlannerStep(j)
        \/ CoderStep(j)
        \/ TesterStep(j)
        \/ InferenceStart(j)
        \/ InferenceLookup(j)
        \/ InferenceExecute(j)

Spec == Init /\ [][Next]_vars

\* delete_job: the record leaves the table; the jobs file is not rewritten.
delete_job(table, job_id) == [table EXCEPT ![job_id] = NoJob]

\* Last cycle of a run in which the deletion of its job is served.
MaxDeleteCycle == 1

\* DELETE /jobs/{job_id} served while the job's run is suspended at an await.
DeleteJob(j) ==
    /\ current_cycle[j] <= MaxDeleteCycle
    /\ jobs' = delete_job(jobs, j)
    /\ last_call' = [op |-> "delete_job", job_id |-> j, returned |-> jobs[j] # NoJob]
    /\ UNCHANGED storevars
    /\ UNCHANGED <<jobs_file, wfvars, poolvars>>

NextWithDelete ==
    \/ Next
    \/ \E j \in DirectJobs : DeleteJob(j)

\* The retry loop with the job's deletion served between its steps.
SpecWithDelete == Init /\ [][NextWithDelete]_vars

-----------------------------------------------------------------------------
(* utils/job_manager.py called directly, on known and unknown job ids *)

\* The job ids the store specification calls the store with.
StoreJobs == {1, 2}

\* Arguments of update_job_status: a progress report, a completion, a
\* failure with its message, and a bare status change.
UpdateInputs ==
    {[status |-> PLANNING, current_step |-> [text |-> "Planning Phase"],
      progress_details |-> [phase |-> "analysis"], error_message |-> NoneStr],
     [status |-> COMPLETED, current_step |-> [text |-> "Completed"],
      progress_details |-> [phase |-> "completed"], error_message |-> NoneStr],
     [status |-> FAILED, current_step |-> [text |-> "Failed"],
      progress_details |-> [failure_reason |-> "Testing failed"],
      error_message |-> "Testing failed"],
     [status |-> PENDING, current_step |-> None,
      progress_details |-> None, error_message |-> NoneStr]}

\* A progress report and a failure.
HeldUpdateInputs == {c \in UpdateInputs : c.status \in {PLANNING, FAILED}}

\* update_job_status called by a client of the store.
UpdateStatus(j, c) ==
    /\ jobs' = update_job_status(jobs, j, c.status, c.current_step,
                                 c.progress_details, c.error_message)
    /\ jobs_file' = Persist(jobs, j, jobs', jobs_file)
    /\ last_call' = UpdateCall(jobs, j)
    /\ UNCHANGED storevars
    /\ UNCHANGED <<wfvars, poolvars>>

\* create_job called with a job id the store already holds: line 110 assigns
\* the new record over the old one and the call returns it.
CreateExistingJob(j, mode) ==
    /\ jobs[j] # NoJob
    /\ jobs' = create_job(jobs, j, mode, "client")
    /\ jobs_file' = _save_jobs(jobs')
    /\ last_call' = [op |-> "create_job", job_id |-> j, raised |-> FALSE]
    /\ UNCHANGED storevars
    /\ UNCHANGED <<wfvars, poolvars>>

StoreNext ==
    \E j \in StoreJobs :
        \/ \E mode \in {TRAINING, INFERENCE} : CreateJob(j, mode)
        \/ \E mode \in {TRAINING, INFERENCE} : CreateExistingJob(j, mode)
        \/ \E c \in UpdateInputs : UpdateStatus(j, c)
        \/ DeleteJob(j)

StoreSpec == Init /\ [][StoreNext]_vars

-----------------------------------------------------------------------------
(* utils/job_manager.py: a save that fails, and a restart *)

\* What a failed _save_jobs leaves of the file: mkdir or open raised and the
\* file is as it was, or the write raised after open(..., "w") had emptied it.
\* Lines 69-70 log the exception and return.
FailedSaves(file) == {file, [j \in DOMAIN file |-> NoJob]}

\* update_job_status whose _save_jobs fails.
UpdateStatusSaveFails(j, c) ==
    /\ jobs[j] # NoJob
    /\ jobs' = update_job_status(jobs, j, c.status, c.current_step,
                                 c.progress_details, c.error_message)
    /\ jobs_file' \in FailedSaves(jobs_file)
    /\ last_call' = UpdateCall(jobs, j)
    /\ UNCHANGED <<wfvars, poolvars, storevars>>

\* The process dies and a new one starts: JobManager() loads the file.
Restart ==
    /\ jobs' = _load_jobs(jobs_file)
    /\ last_call' = NoCall
    /\ UNCHANGED <<jobs_file, wfvars, poolvars, storevars>>

\* The job whose updates are followed to the file.
DurableJobs == {1}

DurabilityNext ==
    \/ \E j \in DurableJobs :
        \/ \E mode \in {TRAINING, INFERENCE} : CreateJob(j, mode)
        \/ \E c \in UpdateInputs : UpdateStatus(j, c)
        \/ \E c \in UpdateInputs : UpdateStatusSaveFails(j, c)
    \/ Restart

DurabilitySpec == Init /\ [][DurabilityNext]_vars

-----------------------------------------------------------------------------
(* utils/job_manager.py: cleanup_completed_jobs *)

\* Longest time the retention specification lets pass, in hours.
MaxAgeHours == 2

\* Lines 400-409: a job is deleted when its status is COMPLETED or FAILED, it
\* has a completed_at, and more than max_age_hours have passed since then.
\* completed_at is written by the update that made the job terminal.
Reaped(table, age, max_age_hours) ==
    {j \in DOMAIN table :
        /\ table[j] # NoJob
        /\ table[j].status \in {COMPLETED, FAILED}
        /\ table[j].completed_at # NoneStr
        /\ age[j] > max_age_hours}

cleanup_completed_jobs(table, age, max_age_hours) ==
    [j \in DOMAIN table |->
        IF j \in Reaped(table, age, max_age_hours) THEN NoJob ELSE table[j]]

\* update_job_status at the present time.
UpdateNow(j, c) ==
    /\ jobs[j] # NoJob
    /\ jobs' = update_job_status(jobs, j, c.status, c.current_step,
                                 c.progress_details, c.error_message)
    /\ jobs_file' = Persist(jobs, j, jobs', jobs_file)
    /\ last_call' = UpdateCall(jobs, j)
    /\ age_hours' = [age_hours EXCEPT ![j] = 0]
    /\ UNCHANGED <<wfvars, poolvars, returned, lockvars>>

\* An hour passes.
Tick ==
    /\ \E j \in JobIds : jobs[j] # NoJob
    /\ \A j \in JobIds : age_hours[j] < MaxAgeHours
    /\ age_hours' = [j \in JobIds |-> IF jobs[j] # NoJob THEN age_hours[j] + 1 ELSE age_hours[j]]
    /\ UNCHANGED <<jobs, jobs_file, wfvars, poolvars, last_call, returned, lockvars>>

\* cleanup_completed_jobs(max_age_hours): the table is not saved.
Cleanup(max_age_hours) ==
    /\ jobs' = cleanup_completed_jobs(jobs, age_hours, max_age_hours)
    /\ age_hours' = [j \in JobIds |-> IF jobs'[j] = NoJob THEN 0 ELSE age_hours[j]]
    /\ last_call' = [op |-> "cleanup_completed_jobs", max_age_hours |-> max_age_hours,
                     removed |-> Cardinality(Reaped(jobs, age_hours, max_age_hours))]
    /\ UNCHANGED <<jobs_file, wfvars, poolvars, returned, lockvars>>

RetentionNext ==
    \/ \E j \in StoreJobs :
        \/ \E mode \in {TRAINING, INFERENCE} : CreateJob(j, mode)
        \/ \E c \in HeldUpdateInputs : UpdateNow(j, c)
    \/ Tick
    \/ \E max_age_hours \in 0..MaxAgeHours : Cleanup(max_age_hours)

RetentionSpec == Init /\ [][RetentionNext]_vars

-----------------------------------------------------------------------------
(* utils/job_manager.py: the records get_job and list_jobs hand out *)

\* Longest agent_results list of the snapshot specification.
MaxAgentResults == 2

\* get_job: job.copy() is a new dict whose values are the objects of the
\* store's record, so progress_details and agent_results are shared.
get_job(table, job_id) ==
    [held |-> TRUE, job_id |-> job_id, record |-> table[job_id],
     same_dict |-> FALSE, same_nested |-> TRUE]

\* list_jobs and get_jobs_by_client: a new outer dict whose values are the
\* store's own records; the caller looks at the record of job_id.
list_jobs(table, job_id) ==
    [held |-> TRUE, job_id |-> job_id, record |-> table[job_id],
     same_dict |-> TRUE, same_nested |-> TRUE]

\* What the holder of snap reads once the store's table is `table`.
View(snap, table) ==
    IF ~snap.held THEN snap
    ELSE IF snap.same_dict THEN [snap EXCEPT !.record = table[snap.job_id]]
    ELSE IF snap.same_nested
         THEN [snap EXCEPT !.record.progress_details = table[snap.job_id].progress_details,
                           !.record.agent_results = table[snap.job_id].agent_results]
         ELSE snap

\* A caller's assignments to the record it holds.
CallerWrites == {"status", "progress_details", "agent_results"}

\* The record after the assignment.
Written(record, w) ==
    CASE w = "status" -> [record EXCEPT !.status = FAILED]
      [] w = "progress_details" ->
             [record EXCEPT !.progress_details = Merge(@, [note |-> "caller"])]
      [] w = "agent_results" ->
             [record EXCEPT !.agent_results =
                 Append(@, AgentResult("caller", TRUE, "note", NoneStr))]

\* The store's table after the holder of snap made assignment w: an
\* assignment to a key reaches the store only through the store's own dict, a
\* change inside progress_details or agent_results through the shared object.
WrittenThrough(snap, table, w) ==
    IF snap.same_dict \/ (snap.same_nested /\ w # "status")
    THEN [table EXCEPT ![snap.job_id] = Written(@, w)]
    ELSE table

GetJob(j) ==
    /\ jobs[j] # NoJob
    /\ returned' = get_job(jobs, j)
    /\ UNCHANGED <<jobs, jobs_file, wfvars, poolvars, last_call, age_hours, lockvars>>

ListJobs(j) ==
    /\ jobs[j] # NoJob
    /\ returned' = list_jobs(jobs, j)
    /\ UNCHANGED <<jobs, jobs_file, wfvars, poolvars, last_call, age_hours, lockvars>>

\* The caller changes the record it was given.
CallerWrite(w) ==
    /\ returned.held
    /\ Len(returned.record.agent_results) < MaxAgentResults
    /\ returned' = [returned EXCEPT !.record = Written(@, w)]
    /\ jobs' = WrittenThrough(returned, jobs, w)
    /\ UNCHANGED <<jobs_file, wfvars, poolvars, last_call, age_hours, lockvars>>

\* update_job_status while a caller holds a record.
UpdateHeld(j, c) ==
    /\ jobs' = update_job_status(jobs, j, c.status, c.current_step,
                                 c.progress_details, c.error_message)
    /\ jobs_file' = Persist(jobs, j, jobs', jobs_file)
    /\ last_call' = UpdateCall(jobs, j)
    /\ returned' = View(returned, jobs')
    /\ UNCHANGED <<wfvars, poolvars, age_hours, lockvars>>

\* add_agent_result while a caller holds a record.
AddResultHeld(j) ==
    /\ jobs[j] # NoJob
    /\ Len(jobs[j].agent_results) < MaxAgentResults
    /\ jobs' = add_agent_result(jobs, j, "planner", TRUE, "plan", NoneStr)
    /\ jobs_file' = Persist(jobs, j, jobs', jobs_file)
    /\ returned' = View(returned, jobs')
    /\ UNCHANGED <<wfvars, poolvars, last_call, age_hours, lockvars>>

\* The job whose record the caller asks for.
SnapshotJobs == {1}

SnapshotNext ==
    \/ \E j \in SnapshotJobs :
        \/ \E mode \in {TRAINING, INFERENCE} : CreateJob(j, mode)
        \/ GetJob(j)
        \/ ListJobs(j)
        \/ \E c \in HeldUpdateInputs : UpdateHeld(j, c)
        \/ AddResultHeld(j)
    \/ \E w \in CallerWrites : CallerWrite(w)

SnapshotSpec == Init /\ [][SnapshotNext]_vars

-----------------------------------------------------------------------------
(* utils/job_manager.py: update_job_status on records that hold results *)

\* The job whose record is given results, a script and test results.
FrameJobs == {1}

\* Arguments of update_job_status: a progress report, a failure with its
\* message, and a bare status change.
FrameInputs == {c \in UpdateInputs : c.status \in {PLANNING, FAILED, PENDING}}

\* create_job for a training job.
CreateFrameJob(j) ==
    /\ jobs[j] = NoJob
    /\ jobs' = create_job(jobs, j, TRAINING, "client")
    /\ jobs_file' = _save_jobs(jobs')
    /\ last_call' = [op |-> "create_job", job_id |-> j]
    /\ UNCHANGED storevars
    /\ UNCHANGED <<wfvars, poolvars>>

\* add_agent_result called by a client of the store.
AddResult(j) ==
    /\ jobs[j] # NoJob
    /\ Len(jobs[j].agent_results) < MaxAgentResults
    /\ jobs' = add_agent_result(jobs, j, "Planner", TRUE, "plan", NoneStr)
    /\ jobs_file' = Persist(jobs, j, jobs', jobs_file)
    /\ last_call' = [op |-> "add_agent_result", job_id |-> j]
    /\ UNCHANGED storevars
    /\ UNCHANGED <<wfvars, poolvars>>

\* set_generated_script called by a client of the store.
SetScript(j) ==
    /\ jobs[j] # NoJob
    /\ jobs' = set_generated_script(jobs, j, ScriptOf(1), save_user_script(ScriptOf(1), j))
    /\ jobs_file' = Persist(jobs, j, jobs', jobs_file)
    /\ last_call' = [op |-> "set_generated_script", job_id |-> j]
    /\ UNCHANGED storevars
    /\ UNCHANGED <<wfvars, poolvars>>

\* set_test_results called by a client of the store.
SetTestResults(j) ==
    /\ jobs[j] # NoJob
    /\ jobs' = set_test_results(jobs, j, [test_passed |-> FALSE])
    /\ jobs_file' = Persist(jobs, j, jobs', jobs_file)
    /\ last_call' = [op |-> "set_test_results", job_id |-> j]
    /\ UNCHANGED storevars
    /\ UNCHANGED <<wfvars, poolvars>>

\* update_job_status called with the arguments c, on a known or unknown id.
UpdateWith(j, c) ==
    /\ jobs' = update_job_status(jobs, j, c.status, c.current_step,
                                 c.progress_details, c.error_message)
    /\ jobs_file' = Persist(jobs, j, jobs', jobs_file)
    /\ last_call' = [op |-> "update_job_status", job_id |-> j,
                     returned |-> jobs[j] # NoJob, args |-> c]
    /\ UNCHANGED storevars
    /\ UNCHANGED <<wfvars, poolvars>>

FrameNext ==
    \/ \E j \in StoreJobs :
        \/ CreateFrameJob(j)
        \/ \E c \in FrameInputs : UpdateWith(j, c)
    \/ \E j \in FrameJobs :
        \/ AddResult(j)
        \/ SetScript(j)
        \/ SetTestResults(j)

FrameSpec == Init /\ [][FrameNext]_vars

-----------------------------------------------------------------------------
(* utils/job_manager.py: the mutating calls and _write_lock *)

\* The job the concurrent calls are about.
LockJobs == {1}

\* The mutating calls of the store, with their arguments.
StoreCalls ==
    UNION {{[op |-> "create_job", job_id |-> j],
            [op |-> "update_job_status", job_id |-> j],
            [op |-> "add_agent_result", job_id |-> j],
            [op |-> "set_generated_script", job_id |-> j],
            [op |-> "set_test_results", job_id |-> j],
            [op |-> "delete_job", job_id |-> j]} : j \in LockJobs}
    \cup {[op |-> "cleanup_completed_jobs", max_age_hours |-> 0]}

\* The table a call leaves when it runs on `table`.
Applied(call, table, age) ==
    CASE call.op = "create_job" -> create_job(table, call.job_id, TRAINING, "client")
      [] call.op = "update_job_status" ->
             update_job_status(table, call.job_id, FAILED, [text |-> "Failed"],
                               [failure_reason |-> "Testing failed"], "Testing failed")
      [] call.op = "add_agent_result" ->
             add_agent_result(table, call.job_id, "planner", TRUE, "plan", NoneStr)
      [] call.op = "set_generated_script" ->
             set_generated_script(table, call.job_id, "script", "path")
      [] call.op = "set_test_results" ->
             set_test_results(table, call.job_id, [test_passed |-> TRUE])
      [] call.op = "delete_job" -> delete_job(table, call.job_id)
      [] call.op = "cleanup_completed_jobs" ->
             cleanup_completed_jobs(table, age, call.max_age_hours)

\* The call awaits _save_jobs before it leaves the lock: create_job always,
\* the calls on one job when they found it, delete_job and
\* cleanup_completed_jobs never.
Saves(call, table) ==
    \/ call.op = "create_job"
    \/ /\ call.op \in {"update_job_status", "add_agent_result",
                        "set_generated_script", "set_test_results"}
       /\ table[call.job_id] # NoJob

\* A lock that lets every caller in.
LockGrants_always(lock) == TRUE

\* asyncio.Lock.acquire returns at once when the lock is free and waits
\* otherwise.
LockGrants(lock) == lock = 0

\* A coroutine calls the store and reaches `async with self._write_lock`.
Call(c, call) ==
    /\ calls[c] = Idle
    /\ call.op = "add_agent_result" =>
            (jobs[call.job_id] # NoJob =>
                Len(jobs[call.job_id].agent_results) < MaxAgentResults)
    /\ calls' = [calls EXCEPT ![c] = [pc |-> "waiting", call |-> call]]
    /\ UNCHANGED <<jobs, jobs_file, wfvars, poolvars, last_call, returned, age_hours,
                   write_lock, serial>>

\* Lines 275-279: update_job_status of a training job with a terminal status
\* awaits update_job_metadata_to_s3, which reads and rewrites the job's
\* metadata object in S3 when the record names a client.
UploadsMetadata(call, table) ==
    /\ call.op = "update_job_status"
    /\ table[call.job_id] # NoJob
    /\ table[call.job_id].mode = TRAINING
    /\ table[call.job_id].client_id # NoneStr

\* The lock is granted and the body runs up to its first await: the table is
\* changed, and either the S3 transfer is under way or _save_jobs has built
\* the data it is about to write.  A call that does not save leaves the lock
\* in the same step.
Enter(c) ==
    /\ calls[c].pc = "waiting"
    /\ LockGrants(write_lock)
    /\ LET call == calls[c].call
           saves == Saves(call, jobs)
       IN /\ jobs' = Applied(call, jobs, age_hours)
          /\ age_hours' = [j \in JobIds |->
                 IF jobs'[j] = NoJob \/ jobs[j] = NoJob
                    \/ (call.op = "update_job_status" /\ call.job_id = j)
                 THEN 0 ELSE age_hours[j]]
          /\ serial' = [jobs |-> Applied(call, serial.jobs, age_hours),
                        jobs_file |-> IF Saves(call, serial.jobs)
                                      THEN _save_jobs(Applied(call, serial.jobs, age_hours))
                                      ELSE serial.jobs_file]
          /\ IF saves
             THEN /\ write_lock' = c
                  /\ calls' = [calls EXCEPT ![c] =
                         IF UploadsMetadata(call, jobs)
                         THEN [pc |-> "uploading", call |-> call]
                         ELSE [pc |-> "saving", call |-> call,
                               jobs_data |-> _save_jobs(jobs')]]
             ELSE /\ calls' = [calls EXCEPT ![c] = Idle]
                  /\ UNCHANGED write_lock
    /\ UNCHANGED <<jobs_file, wfvars, poolvars, last_call, returned>>

\* update_job_metadata_to_s3 returns, having swallowed whatever S3 raised
\* (file_handlers.py:731-734), and _save_jobs builds the data it writes.
MetadataUploaded(c) ==
    /\ calls[c].pc = "uploading"
    /\ calls' = [calls EXCEPT ![c] =
           [pc |-> "saving", call |-> calls[c].call, jobs_data |-> _save_jobs(jobs)]]
    /\ UNCHANGED <<jobs, jobs_file, wfvars, poolvars, last_call, returned, age_hours,
                   write_lock, serial>>

\* The file is written, the lock released, and the call returns.
Leave(c) ==
    /\ calls[c].pc = "saving"
    /\ jobs_file' = calls[c].jobs_data
    /\ write_lock' = 0
    /\ calls' = [calls EXCEPT ![c] = Idle]
    /\ UNCHANGED <<jobs, wfvars, poolvars, last_call, returned, age_hours, serial>>

\* An hour passes while no call is under way.
LockTick ==
    /\ \A c \in Callers : calls[c] = Idle
    /\ \E j \in JobIds : jobs[j] # NoJob
    /\ \A j \in JobIds : age_hours[j] < MaxAgeHours
    /\ age_hours' = [j \in JobIds |-> IF jobs[j] # NoJob THEN age_hours[j] + 1 ELSE age_hours[j]]
    /\ UNCHANGED <<jobs, jobs_file, wfvars, poolvars, last_call, returned, lockvars>>

LockNext ==
    \/ \E c \in Callers :
        \/ \E call \in StoreCalls : Call(c, call)
        \/ Enter(c)
        \/ MetadataUploaded(c)
        \/ Leave(c)
    \/ LockTick

LockSpec == Init /\ [][LockNext]_vars

-----------------------------------------------------------------------------
(* core/workflow_executor.py: the process pool *)

\* The record create_training_job_fast builds.
NewFastJob(client_id) ==
    [NewJob(TRAINING, client_id) EXCEPT
        !.status = INITIALIZING,
        !.current_step = [text |-> "Job created - initializing S3 setup"],
        !.progress_details = [phase |-> "initializing", step |-> "job_created",
                              progress_percent |-> 0]]

\* create_training_job_fast with no job_id in the request.
CreateFastJob(j) ==
    /\ jobs[j] = NoJob
    /\ future[j] = NoFuture
    /\ loop_thread = NoFrame
    /\ jobs' = [jobs EXCEPT ![j] = NewFastJob("client")]
    /\ jobs_file' = _save_jobs(jobs')
    /\ UNCHANGED <<wfvars, poolvars, last_call, storevars>>

\* create_job for a job that goes to the pool.
CreatePoolJob(j) ==
    /\ future[j] = NoFuture
    /\ loop_thread = NoFrame
    /\ CreateJob(j, TRAINING)

\* The progress_details of the queued update: lines 97-101.
QueuedProgress(size, active) ==
    [queue_position |-> size + 1,
     active_workers |-> Cardinality(active),
     max_workers |-> max_workers]

\* A submission that leaves the job record as it is.
QueuedUpdate_skipped(table, job_id, size, active) == table

\* Lines 93-102: the update that tells the store the job is queued.
QueuedUpdate(table, job_id, size, active) ==
    update_job_status(table, job_id, PENDING, [text |-> "Queued for processing"],
                      QueuedProgress(size, active), NoneStr)

\* Line 85: `if not self.executor`.
PoolInitialized(pool) == pool # NoneStr

\* An executor that still takes calls after shutdown was called.
ExecutorAccepts_after_shutdown(pool, active) == pool # NoneStr

\* An executor that refuses a call when all its workers are taken.
ExecutorAccepts_when_free(pool, active) ==
    pool = "pool" /\ Cardinality(active) < max_workers

\* executor.submit: a ProcessPoolExecutor queues the call whatever the number
\* of busy workers, and raises once shutdown has been called.
ExecutorAccepts(pool, active) == pool = "pool"

\* submit_workflow, lines 85-102: False without a pool; otherwise the queued
\* update is awaited, and the coroutine is suspended while the store saves.
submit_workflow(j, perform_s3_setup) ==
    /\ future[j] = NoFuture
    /\ loop_thread = NoFrame
    /\ IF ~PoolInitialized(executor)
       THEN /\ future' = [future EXCEPT ![j] = [state |-> "rejected"]]
            /\ UNCHANGED <<jobs, jobs_file, last_call, storevars>>
       ELSE /\ jobs' = QueuedUpdate(jobs, j, queue_size, active_jobs)
            /\ jobs_file' = Persist(jobs, j, jobs', jobs_file)
            /\ last_call' = UpdateCall(jobs, j)
            /\ UNCHANGED storevars
            /\ future' = [future EXCEPT ![j] =
                   [state |-> "submitting", perform_s3_setup |-> perform_s3_setup]]
    /\ UNCHANGED <<wfvars, executor, active_jobs, queue_size, wpc, wjobs,
                   loop_thread, executor_thread>>

\* Lines 118-122: executor.submit, active_jobs[job_id] = future, and the read
\* of queue_size that `self.queue_size += 1` starts with.  A raise of
\* executor.submit is caught at line 145 and submit_workflow returns False.
executor_submit(j) ==
    /\ future[j].state = "submitting"
    /\ loop_thread = NoFrame
    /\ IF ExecutorAccepts(executor, active_jobs)
       THEN /\ future' = [future EXCEPT ![j].state = "pending"]
            /\ active_jobs' = active_jobs \cup {j}
            /\ loop_thread' = [job |-> j, queue_size |-> queue_size]
       ELSE /\ future' = [future EXCEPT ![j] = [state |-> "rejected"]]
            /\ UNCHANGED <<active_jobs, loop_thread>>
    /\ UNCHANGED <<jobs, jobs_file, wfvars, executor, queue_size, wpc, wjobs,
                   executor_thread, last_call, storevars>>

\* A counter of busy workers, which stops at max_workers.
QueueSizeAfterSubmit_capped(read) == IF read < max_workers THEN read + 1 ELSE read

\* The value `self.queue_size += 1` stores, given the value it read.
QueueSizeAfterSubmit(read) == read + 1

\* The value `self.queue_size = max(0, self.queue_size - 1)` stores.
QueueSizeAfterCompletion(read) == IF read - 1 > 0 THEN read - 1 ELSE 0

\* Lines 122-143: the store of `self.queue_size += 1`, add_done_callback, and
\* return True.  add_done_callback on a future that is already done runs
\* _job_completed at once, in this thread.
submit_workflow_returns(j) ==
    /\ loop_thread.job = j
    /\ loop_thread' = NoFrame
    /\ IF future[j].state = "done"
       THEN /\ future' = [future EXCEPT ![j].state = "finished"]
            /\ active_jobs' = active_jobs \ {j}
            /\ queue_size' = QueueSizeAfterCompletion(QueueSizeAfterSubmit(loop_thread.queue_size))
       ELSE /\ queue_size' = QueueSizeAfterSubmit(loop_thread.queue_size)
            /\ UNCHANGED <<future, active_jobs>>
    /\ UNCHANGED <<jobs, jobs_file, wfvars, executor, wpc, wjobs, executor_thread, last_call, storevars>>

Running == {j \in JobIds : future[j].state = "running"}

\* A free worker takes the job: _execute_workflow_process, lines 321-336.
WorkerStart(j) ==
    /\ future[j].state = "pending"
    /\ Cardinality(Running) < max_workers
    /\ future' = [future EXCEPT ![j].state = "running"]
    /\ wpc' = [wpc EXCEPT ![j] = IF future[j].perform_s3_setup THEN "s3_setup" ELSE "workflow"]
    /\ UNCHANGED <<jobs, jobs_file, wfvars, executor, active_jobs, queue_size, wjobs,
                   loop_thread, executor_thread, last_call, storevars>>

\* The dict the wrapper returns from its except clause: lines 378-385.
WrapperFailure(error) == [success |-> FALSE, status |-> FAILED, error |-> error]

\* The five progress updates of _perform_s3_setup, in order.
S3Progress ==
    <<[text |-> "Setting up S3 storage", step |-> "creating_folders", percent |-> 10, phase |-> "uploading"],
      [text |-> "Saving job metadata", step |-> "saving_metadata", percent |-> 30, phase |-> "uploading"],
      [text |-> "Uploading input files", step |-> "uploading_files", percent |-> 50, phase |-> "uploading"],
      [text |-> "Uploading expected output files", step |-> "uploading_expected", percent |-> 80, phase |-> "uploading"],
      [text |-> "S3 setup complete - starting AI processing", step |-> "s3_complete", percent |-> 100, phase |-> "processing"]>>

\* The table after the first n progress updates.
RECURSIVE S3Updates(_, _, _)
S3Updates(table, job_id, n) ==
    IF n = 0 THEN table
    ELSE update_job_status(S3Updates(table, job_id, n - 1), job_id, PENDING,
             [text |-> S3Progress[n].text],
             [phase |-> S3Progress[n].phase, step |-> S3Progress[n].step,
              progress_percent |-> S3Progress[n].percent],
             NoneStr)

\* _perform_s3_setup: a JobManager() of the worker's own loads the file, reports
\* progress through it, and on an S3 error marks the job FAILED and re-raises.
\* failed_after = 0 is a setup that ran to its end.
S3Setup(j) ==
    /\ wpc[j] = "s3_setup"
    /\ \E failed_after \in 0..4 :
        LET loaded == _load_jobs(jobs_file)
            done == IF failed_after = 0 THEN Len(S3Progress) ELSE failed_after
            progressed == S3Updates(loaded, j, done)
            table == IF failed_after = 0 THEN progressed
                     ELSE update_job_status(progressed, j, FAILED,
                              [text |-> "S3 setup failed"], None, "S3 error")
        IN /\ wjobs' = [wjobs EXCEPT ![j] = table]
           /\ jobs_file' = Persist(loaded, j, table, jobs_file)
           /\ IF failed_after = 0
              THEN /\ wpc' = [wpc EXCEPT ![j] = "workflow"]
                   /\ UNCHANGED future
              ELSE /\ wpc' = [wpc EXCEPT ![j] = "returned"]
                   /\ future' = [future EXCEPT ![j] =
                          [state |-> "done", result |-> WrapperFailure("S3 error")]]
    /\ UNCHANGED <<jobs, wfvars, executor, active_jobs, queue_size,
                   loop_thread, executor_thread, last_call, storevars>>

\* CSVConversionWorkflow.__init__(self) takes no argument.
WorkflowInitAccepts(keywords) == keywords = {}

\* Lines 354-385: the wrapper builds CSVConversionWorkflow(use_fresh_instances=True)
\* and runs execute_conversion_job on it; any exception is caught and turned into
\* a failure dict.
RunWorkflow(j) ==
    /\ wpc[j] = "workflow"
    /\ IF WorkflowInitAccepts({"use_fresh_instances"})
       THEN /\ wpc' = [wpc EXCEPT ![j] = "execute_conversion_job"]
            /\ UNCHANGED future
       ELSE /\ wpc' = [wpc EXCEPT ![j] = "returned"]
            /\ future' = [future EXCEPT ![j] =
                   [state |-> "done",
                    result |-> WrapperFailure("unexpected keyword argument")]]
    /\ UNCHANGED <<jobs, jobs_file, wfvars, executor, active_jobs, queue_size, wjobs,
                   loop_thread, executor_thread, last_call, storevars>>

\* _job_completed, the done callback, in the executor's thread: the job id
\* leaves active_jobs and queue_size is read (lines 127-135) ...
_job_completed(j) ==
    /\ future[j].state = "done"
    /\ loop_thread.job # j
    /\ executor_thread = NoFrame
    /\ active_jobs' = active_jobs \ {j}
    /\ executor_thread' = [job |-> j, queue_size |-> queue_size]
    /\ UNCHANGED <<jobs, jobs_file, wfvars, executor, queue_size, future, wpc, wjobs,
                   loop_thread, last_call, storevars>>

\* ... and max(0, queue_size - 1) of the value read is stored (line 135).
_job_completed_returns(j) ==
    /\ executor_thread.job = j
    /\ queue_size' = QueueSizeAfterCompletion(executor_thread.queue_size)
    /\ future' = [future EXCEPT ![j].state = "finished"]
    /\ executor_thread' = NoFrame
    /\ UNCHANGED <<jobs, jobs_file, wfvars, executor, active_jobs, wpc, wjobs,
                   loop_thread, last_call, storevars>>

\* shutdown: executor.shutdown(wait=True) is entered ...
ShutdownCalled ==
    /\ executor = "pool"
    /\ loop_thread = NoFrame
    /\ executor' = "shutdown"
    /\ UNCHANGED <<jobs, jobs_file, wfvars, active_jobs, queue_size, future, wpc, wjobs,
                   loop_thread, executor_thread, last_call, storevars>>

\* ... and returns once no future is pending or running; executor = None.
ShutdownReturns ==
    /\ executor = "shutdown"
    /\ \A j \in JobIds : future[j].state \notin {"pending", "running"}
    /\ executor' = NoneStr
    /\ UNCHANGED <<jobs, jobs_file, wfvars, active_jobs, queue_size, future, wpc, wjobs,
                   loop_thread, executor_thread, last_call, storevars>>

\* The job ids the pool specification submits.
PoolJobs == {1, 2}

PoolNext ==
    \/ \E j \in PoolJobs :
        \/ CreatePoolJob(j)
        \/ CreateFastJob(j)
        \/ \E perform_s3_setup \in BOOLEAN : submit_workflow(j, perform_s3_setup)
        \/ executor_submit(j)
        \/ submit_workflow_returns(j)
        \/ WorkerStart(j)
        \/ S3Setup(j)
        \/ RunWorkflow(j)
        \/ _job_completed(j)
        \/ _job_completed_returns(j)
    \/ ShutdownCalled
    \/ ShutdownReturns

PoolSpec == Init /\ [][PoolNext]_vars

\* The jobs two workers set up at the same time.
WorkerJobs == {1, 2}

\* The progress updates of _perform_s3_setup the record shows as made.
StepsDone(job) ==
    Cardinality({n \in 1..Len(S3Progress) :
        S3Progress[n].percent <= Get(job.progress_details, "progress_percent", 0)})

\* _perform_s3_setup, lines 204-205: the worker builds a JobManager() of its
\* own, which loads the jobs file as it is at that moment.
S3SetupLoads(j) ==
    /\ wpc[j] = "s3_setup"
    /\ wjobs' = [wjobs EXCEPT ![j] = _load_jobs(jobs_file)]
    /\ wpc' = [wpc EXCEPT ![j] = "s3_loaded"]
    /\ UNCHANGED <<jobs, jobs_file, wfvars, executor, active_jobs, queue_size, future,
                   loop_thread, executor_thread, last_call, storevars>>

\* One progress update of _perform_s3_setup (lines 206-287): the worker's
\* table is updated and written to the jobs file as a whole; the S3 call
\* that follows succeeds.  After the fifth update the setup returns.
S3SetupStep(j) ==
    /\ wpc[j] = "s3_loaded"
    /\ wjobs[j][j] # NoJob
    /\ LET n == StepsDone(wjobs[j][j]) + 1
           table == update_job_status(wjobs[j], j, PENDING,
                        [text |-> S3Progress[n].text],
                        [phase |-> S3Progress[n].phase, step |-> S3Progress[n].step,
                         progress_percent |-> S3Progress[n].percent],
                        NoneStr)
       IN /\ wjobs' = [wjobs EXCEPT ![j] = table]
          /\ jobs_file' = _save_jobs(table)
          /\ wpc' = [wpc EXCEPT ![j] = IF n = Len(S3Progress) THEN "workflow" ELSE @]
    /\ UNCHANGED <<jobs, wfvars, executor, active_jobs, queue_size, future,
                   loop_thread, executor_thread, last_call, storevars>>

\* An S3 call of the setup raises (lines 296-305): the worker marks the job
\* FAILED through its own store and the wrapper returns a failure.
S3SetupFails(j) ==
    /\ wpc[j] = "s3_loaded"
    /\ wjobs[j][j] # NoJob
    /\ StepsDone(wjobs[j][j]) \in 1..(Len(S3Progress) - 1)
    /\ LET table == update_job_status(wjobs[j], j, FAILED,
                        [text |-> "S3 setup failed"], None, "S3 error")
       IN /\ wjobs' = [wjobs EXCEPT ![j] = table]
          /\ jobs_file' = _save_jobs(table)
    /\ wpc' = [wpc EXCEPT ![j] = "returned"]
    /\ future' = [future EXCEPT ![j] =
           [state |-> "done", result |-> WrapperFailure("S3 error")]]
    /\ UNCHANGED <<jobs, wfvars, executor, active_jobs, queue_size,
                   loop_thread, executor_thread, last_call, storevars>>

\* Jobs are created, submitted with perform_s3_setup, and set up by the
\* workers, each through the store instance of its own process.
WorkerNext ==
    \E j \in WorkerJobs :
        \/ CreatePoolJob(j)
        \/ jobs[j] # NoJob /\ submit_workflow(j, TRUE)
        \/ executor_submit(j)
        \/ submit_workflow_returns(j)
        \/ WorkerStart(j)
        \/ S3SetupLoads(j)
        \/ S3SetupStep(j)
        \/ S3SetupFails(j)
        \/ RunWorkflow(j)
        \/ _job_completed(j)
        \/ _job_completed_returns(j)

WorkerSpec == Init /\ [][WorkerNext]_vars

\* The job id that is submitted more than once, and the submissions of it;
\* future, wpc and the thread frames are per submission here.
SameId == 1
Submissions == {1, 2}

\* submit_workflow(SameId, ...), lines 85-102, as submission s: no line looks
\* whether the id is already in active_jobs.
submit_same_id(s) ==
    /\ future[s] = NoFuture
    /\ loop_thread = NoFrame
    /\ jobs[SameId] # NoJob
    /\ PoolInitialized(executor)
    /\ jobs' = QueuedUpdate(jobs, SameId, queue_size, active_jobs)
    /\ jobs_file' = Persist(jobs, SameId, jobs', jobs_file)
    /\ last_call' = UpdateCall(jobs, SameId)
    /\ UNCHANGED storevars
    /\ future' = [future EXCEPT ![s] = [state |-> "submitting", perform_s3_setup |-> FALSE]]
    /\ UNCHANGED <<wfvars, executor, active_jobs, queue_size, wpc, wjobs,
                   loop_thread, executor_thread>>

\* Lines 118-122 for submission s: active_jobs[job_id] = future puts the new
\* future in the place of the one the id had.
executor_submit_same_id(s) ==
    /\ future[s].state = "submitting"
    /\ loop_thread = NoFrame
    /\ ExecutorAccepts(executor, active_jobs)
    /\ future' = [future EXCEPT ![s].state = "pending"]
    /\ active_jobs' = active_jobs \cup {SameId}
    /\ loop_thread' = [job |-> s, queue_size |-> queue_size]
    /\ UNCHANGED <<jobs, jobs_file, wfvars, executor, queue_size, wpc, wjobs,
                   executor_thread, last_call, storevars>>

\* Lines 122-143 for submission s.
submit_same_id_returns(s) ==
    /\ loop_thread.job = s
    /\ loop_thread' = NoFrame
    /\ IF future[s].state = "done"
       THEN /\ future' = [future EXCEPT ![s].state = "finished"]
            /\ active_jobs' = active_jobs \ {SameId}
            /\ queue_size' = QueueSizeAfterCompletion(QueueSizeAfterSubmit(loop_thread.queue_size))
       ELSE /\ queue_size' = QueueSizeAfterSubmit(loop_thread.queue_size)
            /\ UNCHANGED <<future, active_jobs>>
    /\ UNCHANGED <<jobs, jobs_file, wfvars, executor, wpc, wjobs, executor_thread, last_call, storevars>>

\* _job_completed of submission s: lines 131-135 delete the id from
\* active_jobs whichever future it holds.
_job_completed_same_id(s) ==
    /\ future[s].state = "done"
    /\ loop_thread.job # s
    /\ executor_thread = NoFrame
    /\ active_jobs' = active_jobs \ {SameId}
    /\ executor_thread' = [job |-> s, queue_size |-> queue_size]
    /\ UNCHANGED <<jobs, jobs_file, wfvars, executor, queue_size, future, wpc, wjobs,
                   loop_thread, last_call, storevars>>

\* One job is created and its id is submitted twice.
SameIdNext ==
    \/ CreatePoolJob(SameId)
    \/ \E s \in Submissions :
        \/ submit_same_id(s)
        \/ executor_submit_same_id(s)
        \/ submit_same_id_returns(s)
        \/ WorkerStart(s)
        \/ RunWorkflow(s)
        \/ _job_completed_same_id(s)
        \/ _job_completed_returns(s)

SameIdSpec == Init /\ [][SameIdNext]_vars

\* A client submits to the pool the id of a job whose run has returned.
SubmitAgain(j) ==
    /\ pc[j] = "done"
    /\ submit_workflow(j, FALSE)

\* The retry loop on one job, and the pool taking the same id afterwards.
ResubmitNext ==
    \/ Next
    \/ \E j \in DirectJobs :
        \/ SubmitAgain(j)
        \/ executor_submit(j)
        \/ submit_workflow_returns(j)
        \/ WorkerStart(j)
        \/ RunWorkflow(j)
        \/ _job_completed(j)
        \/ _job_completed_returns(j)

ResubmitSpec == Init /\ [][ResubmitNext]_vars

\* More jobs than workers.  A client sends one request after another, each
\* when the previous one was answered: job ids are handed out in that order,
\* every job is created before it is submitted, no job asks for the S3 setup,
\* and the pool's call queue is first in, first out.
Before(j) == {k \in JobIds : k < j}

\* submit_workflow has returned for job j.
Answered(j) == future[j].state \notin {"none", "submitting"} /\ loop_thread.job # j

CreateNextJob(j) ==
    /\ \A k \in Before(j) : Answered(k)
    /\ CreatePoolJob(j)

SubmitNextJob(j) ==
    /\ jobs[j] # NoJob
    /\ submit_workflow(j, FALSE)

StartNextJob(j) ==
    /\ \A k \in Before(j) : future[k].state # "pending"
    /\ WorkerStart(j)

QueueNext ==
    \/ \E j \in JobIds :
        \/ CreateNextJob(j)
        \/ SubmitNextJob(j)
        \/ executor_submit(j)
        \/ submit_workflow_returns(j)
        \/ StartNextJob(j)
        \/ RunWorkflow(j)
        \/ _job_completed(j)
        \/ _job_completed_returns(j)
    \/ ShutdownCalled
    \/ ShutdownReturns

QueueSpec == Init /\ [][QueueNext]_vars

\* get_queue_status: what the pool reports about itself.
get_queue_status ==
    [max_workers |-> max_workers,
     active_jobs |-> Cardinality(active_jobs),
     queue_size |-> queue_size,
     available_workers |-> max_workers - Cardinality(active_jobs)]

-----------------------------------------------------------------------------
(* Properties of the retry loop, checked under Spec *)

\* Job j is a training job whose execute_conversion_job has been entered.
TrainingRun(j) == jobs[j] # NoJob /\ jobs[j].mode = TRAINING /\ pc[j] # "idle"

\* C1: in every state of a training run the orchestrator's current cycle and
\* the cycle it writes into progress_details never exceed max_cycles, and
\* both are at least 1 once the first cycle has started.
C1_CycleWithinBudget ==
    \A j \in JobIds :
        /\ current_cycle[j] \in 0..max_cycles
        /\ pc[j] \in {"planner", "coder", "tester"} => current_cycle[j] >= 1
        /\ TrainingRun(j) =>
            /\ "cycle" \in DOMAIN jobs[j].progress_details =>
                  jobs[j].progress_details.cycle \in 1..max_cycles
            /\ current_cycle[j] >= 1 =>
                  /\ "cycle" \in DOMAIN jobs[j].progress_details
                  /\ jobs[j].progress_details.cycle \in
                        {current_cycle[j], current_cycle[j] + 1}

\* A training run that has used its whole budget.
C1_LastCycleReached ==
    \E j \in JobIds :
        /\ TrainingRun(j)
        /\ pc[j] = "tester"
        /\ current_cycle[j] = max_cycles
        /\ jobs[j].progress_details.cycle = max_cycles

\* C2: for every job of the store, of either mode, completed_at is set if and
\* only if the status is COMPLETED or FAILED.
C2_CompletedAtIffTerminal ==
    \A j \in JobIds :
        jobs[j] # NoJob =>
            ((jobs[j].completed_at # NoneStr) <=> (jobs[j].status \in Terminal))

\* The Tester of the attempt returned a result with test_passed = false.
TesterReturnedNotPassed(a) ==
    /\ a.tester_result # None
    /\ "test_passed" \in DOMAIN a.tester_result
    /\ ~a.tester_result.test_passed

\* Lines 216-251 draw a non-empty feedback list from the Tester result: the
\* Tester failed to run, or its comparison carries feedback_for_coder.
FeedbackDerivable(tr) ==
    \/ ~tr.success
    \/ /\ "comparison_result" \in DOMAIN tr
       /\ Get(tr.comparison_result, "feedback_for_coder", <<>>) # <<>>

\* Every cycle the job has run ended in a Tester result with test_passed = false.
TesterFailedEveryCycle(j) ==
    /\ current_cycle[j] >= 1
    /\ Len(previous_attempts[j]) = current_cycle[j]
    /\ \A i \in DOMAIN previous_attempts[j] : TesterReturnedNotPassed(previous_attempts[j][i])

TesterEntries(j) ==
    Cardinality({i \in DOMAIN jobs[j].agent_results :
                    jobs[j].agent_results[i].agent_name = "Tester"})

\* The job ended FAILED in its last cycle with one Tester entry per cycle.
FailedAtBudget(j) ==
    /\ jobs[j].status = FAILED
    /\ current_cycle[j] = max_cycles
    /\ jobs[j].progress_details.cycle = max_cycles
    /\ TesterEntries(j) = max_cycles

PassingResult(tr) ==
    /\ tr # None
    /\ tr.success
    /\ "test_passed" \in DOMAIN tr
    /\ tr.test_passed

\* C4: once the Tester has returned success with test_passed = true in cycle
\* k, every earlier cycle having ended in a retry, the job is COMPLETED with
\* cycle = k and the run is over: no phase follows the passing Tester.
C4_FirstPassCompletes ==
    \A j \in JobIds :
        (TrainingRun(j) /\ PassingResult(tester_result[j])) =>
            /\ pc[j] = "done"
            /\ jobs[j].status = COMPLETED
            /\ current_cycle[j] = Len(previous_attempts[j]) + 1
            /\ jobs[j].progress_details.cycle = current_cycle[j]
            /\ result[j] = FinalResult(TRUE, COMPLETED, current_cycle[j])
            /\ jobs[j].agent_results[Len(jobs[j].agent_results)].agent_name = "Tester"

\* A job whose Tester passed in its second cycle, after a cycle with feedback.
C4_PassInSecondCycle ==
    \E j \in JobIds :
        /\ TrainingRun(j)
        /\ PassingResult(tester_result[j])
        /\ current_cycle[j] = 2
        /\ TesterReturnedNotPassed(previous_attempts[j][1])
        /\ jobs[j].status = COMPLETED

\* The phases an attempt invoked, in order: the Coder and the Tester are
\* recorded as None when the cycle ended before them.
PhaseNames(a) ==
    <<"Planner">>
    \o (IF a.coder_result # None THEN <<"Coder">> ELSE <<>>)
    \o (IF a.tester_result # None THEN <<"Tester">> ELSE <<>>)

RECURSIVE PhasesOfAttempts(_)
PhasesOfAttempts(attempts) ==
    IF attempts = <<>> THEN <<>>
    ELSE PhasesOfAttempts(SubSeq(attempts, 1, Len(attempts) - 1))
         \o PhaseNames(attempts[Len(attempts)])

\* The phases invoked in the cycle that has not recorded an attempt.
PhasesInProgress(j) ==
    CASE pc[j] = "coder" -> <<"Planner">>
      [] pc[j] = "tester" -> <<"Planner", "Coder">>
      [] pc[j] = "done" /\ PassingResult(tester_result[j]) -> <<"Planner", "Coder", "Tester">>
      [] OTHER -> <<>>

\* Every phase invocation the run has attempted so far, in order.
PhasesAttempted(j) == PhasesOfAttempts(previous_attempts[j]) \o PhasesInProgress(j)

PlanCodeTest == <<"Planner", "Coder", "Tester">>

\* C5: each phase invocation appends exactly one entry to agent_results, in
\* the order of the invocations, so the log is never shorter than the number
\* of phases attempted; a job that completes in cycle k after k full
\* Plan-Code-Test cycles has exactly 3k entries, Planner, Coder, Tester
\* repeated k times.
C5_OneEntryPerPhase ==
    \A j \in JobIds :
        TrainingRun(j) =>
            LET log == jobs[j].agent_results
                phases == PhasesAttempted(j)
            IN /\ Len(log) = Len(phases)
               /\ \A i \in DOMAIN log : log[i].agent_name = phases[i]
               /\ (/\ jobs[j].status = COMPLETED
                   /\ \A i \in DOMAIN previous_attempts[j] :
                          previous_attempts[j][i].tester_result # None)
                  => /\ Len(log) = 3 * current_cycle[j]
                     /\ \A i \in DOMAIN log :
                            log[i].agent_name = PlanCodeTest[((i - 1) % 3) + 1]

\* A job completed in its second cycle after two full cycles: six entries.
C5_SixEntriesAfterTwoCycles ==
    \E j \in JobIds :
        /\ TrainingRun(j)
        /\ jobs[j].status = COMPLETED
        /\ current_cycle[j] = 2
        /\ previous_attempts[j][1].tester_result # None
        /\ Len(jobs[j].agent_results) = 6

\* The Tester of the attempt ran, the output did not match, and the result
\* carries a comparison.
Mismatch(a) ==
    /\ TesterReturnedNotPassed(a)
    /\ a.tester_result.success
    /\ "comparison_result" \in DOMAIN a.tester_result

\* The Planner of the current cycle has been invoked.
PlannerRan(j) == pc[j] # "planner"

\* The Coder of the current cycle has been invoked.
CoderRan(j) ==
    \/ pc[j] = "tester"
    \/ /\ pc[j] \in {"loop", "done"}
       /\ \/ Len(previous_attempts[j]) < current_cycle[j]
          \/ /\ Len(previous_attempts[j]) = current_cycle[j]
             /\ previous_attempts[j][current_cycle[j]].coder_result # None

\* Every text of the list is the suggestion of an entry of coder_feedback.
SuggestionsIn(suggestions, feedback) ==
    /\ "coder_feedback" \in DOMAIN feedback
    /\ \A i \in DOMAIN suggestions :
          \E n \in DOMAIN feedback.coder_feedback :
              feedback.coder_feedback[n].suggestion = suggestions[i]

IsCoderFeedback(fb, feedback) ==
    /\ "coder_feedback" \in DOMAIN feedback
    /\ feedback.coder_feedback = fb

NoUsableFeedback(a) ==
    /\ TesterReturnedNotPassed(a)
    /\ a.tester_result.success
    /\ ~FeedbackDerivable(a.tester_result)

\* The run ended FAILED in a cycle whose Tester was invoked.
FailedAfterTest(j) ==
    /\ pc[j] = "done"
    /\ jobs[j].status = FAILED
    /\ Len(previous_attempts[j]) = current_cycle[j]
    /\ current_cycle[j] >= 1
    /\ previous_attempts[j][current_cycle[j]].tester_result # None

PhaseErrors ==
    {"Planner phase error: planner raised",
     "Coder phase error: coder raised",
     "Tester phase error: tester raised"}

Raised(res) == res # None /\ "error" \in DOMAIN res /\ res.error \in PhaseErrors

\* The result of the phase that ended the attempt.
LastPhaseResult(a) ==
    IF a.tester_result # None THEN a.tester_result
    ELSE IF a.coder_result # None THEN a.coder_result
    ELSE a.planner_result

\* C10: a collaborator that raises in cycle k < max_cycles leaves a failed
\* phase result and one failed audit entry carrying the error; the job is
\* not FAILED in that cycle, and cycle k+1 follows.
C10_PhaseExceptionIsRecoverable ==
    \A j \in JobIds :
        TrainingRun(j) =>
            /\ Cardinality({i \in DOMAIN jobs[j].agent_results :
                              /\ ~jobs[j].agent_results[i].success
                              /\ jobs[j].agent_results[i].error \in PhaseErrors})
               = Cardinality({k \in DOMAIN previous_attempts[j] :
                                Raised(LastPhaseResult(previous_attempts[j][k]))})
            /\ \A k \in DOMAIN previous_attempts[j] :
                  LET a == previous_attempts[j][k]
                  IN (k < max_cycles /\ Raised(LastPhaseResult(a)))
                     => /\ ~LastPhaseResult(a).success
                        /\ current_cycle[j] >= k
                        /\ current_cycle[j] = k =>
                              /\ pc[j] = "loop"
                              /\ jobs[j].status = PENDING
                              /\ jobs[j].progress_details.cycle = k + 1

\* Cycle 3 has begun after a Planner that raised in cycle 1 and a Tester
\* that raised in cycle 2.
C10_ThirdCycleAfterTwoRaises ==
    \E j \in JobIds :
        /\ TrainingRun(j)
        /\ current_cycle[j] = 3
        /\ Len(previous_attempts[j]) = 2
        /\ Raised(previous_attempts[j][1].planner_result)
        /\ Raised(previous_attempts[j][2].tester_result)
        /\ jobs[j].status = PLANNING

\* Every cycle the job has run ended at a failed Planner.
PlannerFailedEveryCycle(j) ==
    /\ current_cycle[j] >= 1
    /\ Len(previous_attempts[j]) = current_cycle[j]
    /\ \A i \in DOMAIN previous_attempts[j] :
          /\ ~previous_attempts[j][i].planner_result.success
          /\ previous_attempts[j][i].coder_result = None

\* C11: a job whose Planner fails in every cycle is FAILED after exactly
\* max_cycles Planner invocations, with no Coder or Tester invocation, and
\* with the last Planner error in error_message.
C11_FailingPlannerExhaustsBudget ==
    \A j \in JobIds :
        (TrainingRun(j) /\ PlannerFailedEveryCycle(j)) =>
            /\ \A i \in DOMAIN jobs[j].agent_results :
                  jobs[j].agent_results[i].agent_name = "Planner"
            /\ Len(jobs[j].agent_results) = current_cycle[j]
            /\ coder_task[j] = None
            /\ (jobs[j].status = FAILED) <=> (pc[j] = "done")
            /\ pc[j] = "done" =>
                  /\ current_cycle[j] = max_cycles
                  /\ result[j] = FinalResult(FALSE, FAILED, max_cycles)
                  /\ jobs[j].error_message =
                        "Planning failed: "
                        \o previous_attempts[j][max_cycles].planner_result.error

\* A job failed by five Planner failures, the last one a raised exception.
C11_FivePlannerFailures ==
    \E j \in JobIds :
        /\ TrainingRun(j)
        /\ PlannerFailedEveryCycle(j)
        /\ pc[j] = "done"
        /\ previous_attempts[j][1].planner_result.error = "Failed to create transformation plan"
        /\ previous_attempts[j][max_cycles].planner_result.error =
              "Planner phase error: planner raised"

\* Job j is an inference job whose execute_conversion_job has been entered.
InferenceRun(j) == jobs[j] # NoJob /\ jobs[j].mode = INFERENCE /\ pc[j] # "idle"

\* C12: an inference job never invokes the Planner, Coder or Tester and
\* never appends to agent_results; it runs no cycle, executes the script in
\* the one step that ends the run, and the run ends COMPLETED or FAILED.
C12_InferenceBypassesLoop ==
    \A j \in JobIds :
        InferenceRun(j) =>
            /\ pc[j] \in {"inference", "inference_lookup", "inference_execute", "done"}
            /\ jobs[j].agent_results = <<>>
            /\ planner_task[j] = None
            /\ coder_task[j] = None
            /\ current_cycle[j] = 0
            /\ previous_attempts[j] = <<>>
            /\ jobs[j].inference_output # None => pc[j] = "done"
            /\ pc[j] = "done" => jobs[j].status \in Terminal
            /\ jobs[j].status \in Terminal => pc[j] = "done"

\* An inference job that ran its script and completed.
C12_InferenceCompleted ==
    \E j \in JobIds :
        /\ InferenceRun(j)
        /\ pc[j] = "done"
        /\ jobs[j].status = COMPLETED
        /\ jobs[j].inference_output # None

\* C13: update_job_status on a job id that is not in the store returns
\* False and leaves every job record and the jobs file unchanged.
C13_UnknownJobUpdateIsNoOp ==
    [][\A j \in JobIds :
          (/\ last_call' # last_call
           /\ last_call'.op = "update_job_status"
           /\ last_call'.job_id = j
           /\ jobs[j] = NoJob)
          => /\ ~last_call'.returned
             /\ jobs' = jobs
             /\ jobs_file' = jobs_file]_vars

\* An update of an unknown job id has returned False while the store holds
\* another job, in memory and in the file.
C13_UnknownJobUpdated ==
    \E j, k \in JobIds :
        /\ last_call = [op |-> "update_job_status", job_id |-> j, returned |-> FALSE]
        /\ jobs[j] = NoJob
        /\ jobs[k] # NoJob
        /\ jobs_file[k] # NoJob
        /\ jobs[k].status = FAILED

\* C14: once a store update of a running job has returned False (the record
\* is gone), the orchestrator takes no further step for that job: no phase
\* collaborator is invoked.
C14_VanishedJobStopsRun ==
    [][\A j \in JobIds :
          (/\ last_call.op = "update_job_status"
           /\ last_call.job_id = j
           /\ ~last_call.returned
           /\ pc[j] \in {"planner", "coder", "tester"})
          => pc'[j] = pc[j]]_vars

-----------------------------------------------------------------------------
(* Properties of the process pool, checked under PoolSpec *)

\* The job's record in the admission process, and the one in the jobs file.
Records(j) == {r \in {jobs[j], jobs_file[j]} : r # NoJob}

\* C8: a job accepted by submit whose execution has ended (its worker
\* returned and the done callback ran) has status COMPLETED or FAILED in its
\* job record.
C8_AcceptedJobEndsTerminal ==
    \A j \in JobIds :
        (jobs[j] # NoJob /\ future[j].state = "finished") =>
            \E r \in Records(j) : r.status \in Terminal

\* C9: an execution that returned a failure result has left the job record
\* FAILED with a non-null error_message.
C9_FailureLeavesFailedRecord ==
    \A j \in JobIds :
        (/\ jobs[j] # NoJob
         /\ future[j].state \in {"done", "finished"}
         /\ ~future[j].result.success) =>
            \E r \in Records(j) : r.status = FAILED /\ r.error_message # NoneStr

-----------------------------------------------------------------------------
(* Properties of the pool's bookkeeping, checked under QueueSpec and PoolSpec *)

\* C15: the pool never reports more active_jobs than it has workers, and
\* never a negative number of available_workers.
C15_ActiveJobsWithinWorkers ==
    /\ get_queue_status.active_jobs <= max_workers
    /\ get_queue_status.available_workers >= 0

\* The jobs for which submit_workflow has returned True.
Accepted ==
    {j \in JobIds : future[j].state \in {"pending", "running", "done", "finished"}
                    /\ loop_thread.job # j}

\* No done callback has started.
NoCompletion ==
    /\ executor_thread = NoFrame
    /\ \A j \in JobIds : future[j].state # "finished"

\* C16: as long as no job has completed, queue_size is the number of accepted
\* submissions, whatever the number of busy workers.
C16_QueueSizeCountsSubmissions ==
    NoCompletion => queue_size = Cardinality(Accepted)

\* More submissions than workers have been accepted and none has completed:
\* all workers are busy and queue_size is max_workers + 1.
C16_FiveQueued ==
    /\ NoCompletion
    /\ Cardinality(Accepted) = max_workers + 1
    /\ Cardinality(Running) = max_workers
    /\ queue_size = max_workers + 1

\* The accepted submissions whose done callback has not run.
Outstanding == {j \in Accepted : future[j].state # "finished"}

\* Neither thread is between its read and its write of the pool's counters.
Quiescent == loop_thread = NoFrame /\ executor_thread = NoFrame

\* C17: whenever neither submit_workflow nor a done callback is under way,
\* queue_size is the number of accepted submissions whose callback has not
\* run, and active_jobs holds exactly their job ids.
C17_CountersMatchOutstanding ==
    Quiescent => /\ queue_size = Cardinality(Outstanding)
                 /\ active_jobs = Outstanding

\* Every accepted job has finished and its done callback has returned.
Drained ==
    /\ Quiescent
    /\ Accepted # {}
    /\ \A j \in JobIds : future[j].state \in {"none", "rejected", "finished"}

\* C18: queue_size is never negative, and once every accepted job has
\* finished and its callback has run, active_jobs is empty and queue_size is 0.
C18_DrainedPoolIsEmpty ==
    /\ queue_size >= 0
    /\ Drained => (active_jobs = {} /\ queue_size = 0)

\* submit_workflow returns False for job j in this step.
Refused(j) == future[j].state # "rejected" /\ future'[j].state = "rejected"

\* C19: submit_workflow called without a pool returns False, and no call
\* returns False while the pool is up, however many workers are busy.
C19_OnlyMissingPoolRefuses ==
    [][\A j \in JobIds :
          /\ (future[j].state = "none" /\ future'[j].state # "none"
              /\ ~PoolInitialized(executor)) => Refused(j)
          /\ Refused(j) => executor # "pool"]_vars

\* A job submitted when max_workers jobs were outstanding has been accepted
\* and waits in the pool's queue while all workers are busy.
C19_AcceptedWhileSaturated ==
    \E j \in Accepted :
        /\ future[j].state = "pending"
        /\ Cardinality(Running) = max_workers
        /\ jobs[j] # NoJob
        /\ jobs[j].progress_details = QueuedProgress(max_workers, Running)

\* The record of job j is as the queued update of submit_workflow leaves it.
QueuedUpdateApplied(j) ==
    /\ jobs[j] # NoJob
    /\ jobs[j].status = PENDING
    /\ jobs[j].current_step = [text |-> "Queued for processing"]
    /\ {"queue_position", "active_workers", "max_workers"} \subseteq DOMAIN jobs[j].progress_details
    /\ jobs[j].progress_details.max_workers = max_workers

\* executor.submit puts job j into the pool in this step.
HandedOver(j) == future[j].state = "submitting" /\ future'[j].state = "pending"

TakenIn(j) == future[j].state \in {"none", "submitting"} /\ future'[j].state = "pending"

\* Job j is in the pool and this step takes it out without a result.
Dropped(j) ==
    /\ future[j].state \in {"pending", "running"}
    /\ future'[j].state \notin {"pending", "running", "done"}

\* C21: once shutdown has been called no submission is accepted, no job in
\* the pool is taken out of it before it has its result, and when shutdown
\* has returned every accepted job has run to its end.
C21_ShutdownDrainsAndRefuses ==
    /\ [](executor = NoneStr =>
            \A j \in Accepted : future[j].state \in {"done", "finished"})
    /\ [][\A j \in JobIds :
            /\ TakenIn(j) => executor = "pool"
            /\ executor # "pool" => ~Dropped(j)]_vars

\* shutdown has been called and has not returned: one accepted job is still
\* running, and a submission made since was refused.
C21_RunningDuringShutdown ==
    /\ executor = "shutdown"
    /\ \E j, k \in JobIds :
        /\ j \in Accepted
        /\ future[j].state = "running"
        /\ future[k].state = "rejected"

-----------------------------------------------------------------------------
(* Properties of the job store, checked under StoreSpec *)

\* C22: create_job with a job id that is already in the store raises and
\* leaves the record of that job, in memory and in the file, as it was.
C22_DuplicateCreateFails ==
    [][\A j \in JobIds :
          (/\ last_call' # last_call
           /\ last_call'.op = "create_job"
           /\ last_call'.job_id = j
           /\ jobs[j] # NoJob)
          => /\ last_call'.raised
             /\ jobs'[j] = jobs[j]
             /\ jobs_file'[j] = jobs_file[j]]_vars

\* C23: a record handed out by get_job or list_jobs is a copy: no step
\* changes both it and the store, so neither a caller's assignment reaches
\* the store nor a store mutation the record.
C23_ReturnedRecordIsACopy ==
    [][returned.held =>
          (jobs' = jobs \/ returned'.record = returned.record)]_vars

\* C24: when update_job_status returns True the file holds the record as
\* the call left it, so a store loaded from the file shows the transition.
C24_TrueReturnIsDurable ==
    [][\A j \in JobIds :
          (/\ last_call'.op = "update_job_status"
           /\ last_call'.job_id = j
           /\ last_call'.returned
           /\ (last_call' # last_call \/ jobs' # jobs))
          => _load_jobs(jobs_file')[j] = jobs'[j]]_vars

\* The jobs this step takes out of the store.
Removed == {j \in JobIds : jobs[j] # NoJob /\ jobs'[j] = NoJob}

\* C26: cleanup_completed_jobs(max_age_hours) removes exactly the jobs of
\* either mode that are COMPLETED or FAILED and have been so for more than
\* max_age_hours, and returns how many it removed.
C26_ReapsExactlyOldTerminalJobs ==
    [][(last_call' # last_call /\ last_call'.op = "cleanup_completed_jobs") =>
          /\ Removed = {j \in JobIds : /\ jobs[j] # NoJob
                                       /\ jobs[j].status \in Terminal
                                       /\ age_hours[j] > last_call'.max_age_hours}
          /\ last_call'.removed = Cardinality(Removed)]_vars

\* The callers that are inside `async with self._write_lock`.
Inside == {c \in Callers : calls[c].pc \in {"uploading", "saving"}}

\* C25: at most one mutating call is inside the write lock, and whenever none
\* is, the table and the file are what the calls leave when they run one
\* after another in the order they took the lock.
C25_MutatingCallsAreSerial ==
    /\ Cardinality(Inside) <= 1
    /\ Inside = {} => (jobs = serial.jobs /\ jobs_file = serial.jobs_file)
    /\ Inside # {} => write_lock \in Inside

\* One call is saving inside the lock while the other caller waits for the
\* lock with a call that changes the same record.
C25_SecondCallWaits ==
    \E c, d \in Callers :
        /\ calls[c].pc = "saving"
        /\ calls[c].call.op = "update_job_status"
        /\ calls[d].pc = "waiting"
        /\ calls[d].call.op = "add_agent_result"
        /\ jobs[calls[d].call.job_id] # NoJob

-----------------------------------------------------------------------------
(* Properties of the status a run writes, checked under Spec *)

\* The place of a status in the order PENDING, PLANNING, CODING, TESTING,
\* terminal.
StatusRank(status) ==
    CASE status = PENDING -> 0
      [] status = PLANNING -> 1
      [] status = CODING -> 2
      [] status = TESTING -> 3
      [] status \in Terminal -> 4
      [] OTHER -> 5

\* This step changes the status of training job j.
StatusChanges(j) ==
    /\ jobs[j] # NoJob
    /\ jobs'[j] # NoJob
    /\ jobs[j].mode = TRAINING
    /\ jobs'[j].status # jobs[j].status

\* The status of j moves forward in the order of StatusRank.
MovesForward(j) ==
    /\ StatusRank(jobs'[j].status) <= 4
    /\ StatusRank(jobs[j].status) < StatusRank(jobs'[j].status)

C28_TerminalStatusIsFinal ==
    [][\A j \in JobIds :
          (jobs[j] # NoJob /\ jobs[j].status \in Terminal) =>
              (jobs'[j] # NoJob /\ jobs'[j].status = jobs[j].status)]_vars

\* The attempt records a cycle that ended in failure: its Planner failed,
\* or its Coder failed, or its Tester did not pass.
CycleFailed(attempt) ==
    IF ~attempt.planner_result.success THEN attempt.coder_result = None
    ELSE IF attempt.coder_result = None THEN FALSE
    ELSE IF ~attempt.coder_result.success THEN attempt.tester_result = None
    ELSE IF attempt.tester_result = None THEN FALSE
    ELSE ~TestPassed(attempt.tester_result)

\* The run of j moves to the given place in this step.
Reaches(j, place) == pc[j] # place /\ pc'[j] = place

\* C29: the Coder of a cycle is invoked only when the Planner of that cycle
\* has just returned success, the Tester only when the Coder of that cycle
\* has just returned success on that plan, and the Planner of cycle k+1 only
\* from the head of the loop after cycle k was recorded as failed; the run is
\* at one phase at a time.
C29_PhasesRunInSequence ==
    [][\A j \in DirectJobs :
          /\ Reaches(j, "coder") =>
                /\ pc[j] = "planner"
                /\ planner_result'[j].success
                /\ current_cycle'[j] = current_cycle[j]
          /\ Reaches(j, "tester") =>
                /\ pc[j] = "coder"
                /\ coder_result'[j].success
                /\ planner_result'[j] = planner_result[j]
                /\ planner_result[j].success
                /\ coder_task'[j].plan = planner_result[j].plan
                /\ current_cycle'[j] = current_cycle[j]
          /\ Reaches(j, "planner") =>
                /\ pc[j] = "loop"
                /\ current_cycle'[j] = current_cycle[j] + 1
                /\ current_cycle[j] >= 1 =>
                      /\ Len(previous_attempts[j]) = current_cycle[j]
                      /\ previous_attempts[j][current_cycle[j]].cycle = current_cycle[j]
                      /\ CycleFailed(previous_attempts[j][current_cycle[j]])]_vars

\* The Tester of cycle 2 is about to run: cycle 1 failed at its Coder, and in
\* cycle 2 the Planner and then the Coder succeeded.
C29_TesterOfSecondCycle ==
    \E j \in DirectJobs :
        /\ TrainingRun(j)
        /\ pc[j] = "tester"
        /\ current_cycle[j] = 2
        /\ Len(previous_attempts[j]) = 1
        /\ previous_attempts[j][1].coder_result # None
        /\ previous_attempts[j][1].tester_result = None
        /\ planner_result[j].success
        /\ coder_result[j].success

\* The entry a cycle leaves in previous_attempts when it fails in the phase
\* the run is at: the results of the phases the cycle reached, None for the
\* others, and the number of the cycle.
AttemptOf(j, place) ==
    [planner_result |-> planner_result'[j],
     coder_result |-> IF place = "planner" THEN None ELSE coder_result'[j],
     tester_result |-> IF place = "tester" THEN tester_result'[j] ELSE None,
     cycle |-> current_cycle[j]]

\* C30: the Planner of cycle k is handed previous_attempts as the loop holds
\* it, which has one entry for each of the cycles 1..k-1 in their order, each
\* with its cycle number and the record of a failed cycle; an entry is added
\* only by a cycle that fails, at the end of the list, made of that cycle's
\* results; and a cycle that is followed by another has added its entry,
\* whichever phase it failed in.
C30_PlannerSeesEveryFailedCycle ==
    /\ [](\A j \in DirectJobs :
            (TrainingRun(j) /\ pc[j] = "planner") =>
                /\ Len(previous_attempts[j]) = current_cycle[j] - 1
                /\ \A i \in 1..Len(previous_attempts[j]) :
                      /\ DOMAIN previous_attempts[j][i] =
                            {"planner_result", "coder_result", "tester_result", "cycle"}
                      /\ previous_attempts[j][i].cycle = i
                      /\ CycleFailed(previous_attempts[j][i]))
    /\ [][\A j \in DirectJobs :
            /\ pc[j] = "planner" =>
                  planner_task'[j].previous_attempts = previous_attempts[j]
            /\ previous_attempts'[j] # previous_attempts[j] =>
                  \/ pc[j] = "idle" /\ previous_attempts'[j] = <<>>
                  \/ /\ pc[j] \in {"planner", "coder", "tester"}
                     /\ previous_attempts'[j] =
                           Append(previous_attempts[j], AttemptOf(j, pc[j]))
            /\ (/\ pc[j] \in {"planner", "coder", "tester"}
                /\ \/ pc'[j] = "loop"
                   \/ pc'[j] = "done" /\ ~result'[j].success) =>
                  Len(previous_attempts'[j]) = current_cycle[j]]_vars

\* The Planner of cycle 3 is about to be handed two attempts: cycle 1 failed
\* at its Planner, cycle 2 at its Tester.
C30_ThirdPlannerAfterTwoAttempts ==
    \E j \in DirectJobs :
        /\ TrainingRun(j)
        /\ pc[j] = "planner"
        /\ current_cycle[j] = 3
        /\ Len(previous_attempts[j]) = 2
        /\ previous_attempts[j][1].coder_result = None
        /\ ~previous_attempts[j][1].planner_result.success
        /\ previous_attempts[j][2].tester_result # None
        /\ previous_attempts[j][2].cycle = 2

-----------------------------------------------------------------------------
(* Properties of the feedback and the artifact of a run, checked under Spec *)

\* The feedback set a failed cycle gives rise to when nothing of an earlier
\* cycle is kept: lines 113-120, 165-172 and 216-256 run on an empty dict.
FeedbackFrom(attempt) ==
    IF attempt.coder_result = None
    THEN LET error_msg == Get(attempt.planner_result, "error", "Unknown planning error")
         IN [coder_feedback |->
                <<FeedbackItem("planning_error", "Planning failed: " \o error_msg, error_msg)>>]
    ELSE IF attempt.tester_result = None
    THEN LET error_msg == Get(attempt.coder_result, "error", "Unknown code generation error")
         IN [coder_feedback |->
                <<FeedbackItem("generation_error",
                               "Code generation failed: " \o error_msg, error_msg)>>]
    ELSE LET ex == ExtractFeedback(attempt.tester_result, EmptyDict)
         IN StoreFeedback(attempt.tester_result, ex.feedback_for_coder, ex.agent_feedback)

\* C31: the feedback the Planner of cycle k+1 is about to be handed is
\* exactly the set derived from the failure of cycle k; no key of an earlier
\* cycle, an earlier test report included, is left in it.
C31_FeedbackIsReplacedWholesale ==
    \A j \in DirectJobs :
        (TrainingRun(j) /\ pc[j] = "planner" /\ current_cycle[j] >= 2) =>
            agent_feedback[j] = FeedbackFrom(previous_attempts[j][current_cycle[j] - 1])

\* The artifact a job record holds: the script and the path it was saved at.
Artifact(job) == <<job.generated_script, job.generated_script_path>>

\* C32: a Coder phase that succeeds leaves its script and the path that
\* script was saved at as the artifact of the record, in place of whatever was
\* there; a
\* Coder phase that fails, and every other step of the run, leaves the
\* artifact as it was; the record holds one script and one path.
C32_ArtifactIsLatestCoderOutput ==
    [][\A j \in DirectJobs :
          (jobs[j] # NoJob /\ jobs'[j] # NoJob) =>
              IF pc[j] = "coder" /\ coder_result'[j].success
              THEN Artifact(jobs'[j]) =
                      <<coder_result'[j].script_content,
                        save_user_script(coder_result'[j].script_content, j)>>
              ELSE Artifact(jobs'[j]) = Artifact(jobs[j])]_vars

\* The Coder of cycle 2 has succeeded after the Coder of cycle 1 had stored a
\* script: the record holds the script of cycle 2.
C32_SecondScriptStored ==
    \E j \in DirectJobs :
        /\ TrainingRun(j)
        /\ pc[j] = "tester"
        /\ current_cycle[j] = 2
        /\ previous_attempts[j][1].coder_result # None
        /\ previous_attempts[j][1].coder_result.success
        /\ previous_attempts[j][1].coder_result.script_content = ScriptOf(1)
        /\ jobs[j].generated_script = ScriptOf(2)

-----------------------------------------------------------------------------
(* Properties of the records under the store's calls *)

\* s is the beginning of t.
IsPrefix(s, t) == Len(s) <= Len(t) /\ \A i \in 1..Len(s) : s[i] = t[i]

\* C33: while a job id stays in the table, the agent_results of its record
\* before a step are a prefix of its agent_results after the step.
C33_AgentResultsOnlyGrow ==
    [][\A j \in JobIds :
          (jobs[j] # NoJob /\ jobs'[j] # NoJob) =>
              IsPrefix(jobs[j].agent_results, jobs'[j].agent_results)]_vars

\* This step is update_job_status returning from a call on job id j.
UpdateReturns(j) ==
    /\ last_call' # last_call \/ jobs' # jobs
    /\ last_call'.op = "update_job_status"
    /\ "args" \in DOMAIN last_call'
    /\ last_call'.job_id = j

\* The keys of the progress report an update carries.
MergedKeys(c) == IF c.progress_details = None THEN {} ELSE DOMAIN c.progress_details

\* C34: update_job_status on job j sets the status and every key of the
\* progress report, leaves every other key of progress_details as it was,
\* keeps current_step and error_message when they are omitted, leaves
\* agent_results, the script, its path and test_results of j alone, and
\* leaves every other record of the table alone.
C34_UpdateTouchesOnlyItsFields ==
    [][\A j \in JobIds :
          UpdateReturns(j) =>
              LET c == last_call'.args
              IN /\ \A k \in JobIds \ {j} : jobs'[k] = jobs[k]
                 /\ jobs[j] = NoJob => jobs'[j] = NoJob
                 /\ jobs[j] # NoJob =>
                       /\ jobs'[j] # NoJob
                       /\ jobs'[j].status = c.status
                       /\ DOMAIN jobs'[j].progress_details =
                             DOMAIN jobs[j].progress_details \cup MergedKeys(c)
                       /\ \A key \in MergedKeys(c) :
                             jobs'[j].progress_details[key] = c.progress_details[key]
                       /\ \A key \in DOMAIN jobs[j].progress_details \ MergedKeys(c) :
                             jobs'[j].progress_details[key] = jobs[j].progress_details[key]
                       /\ jobs'[j].current_step =
                             IF c.current_step = None THEN jobs[j].current_step
                             ELSE c.current_step
                       /\ jobs'[j].error_message =
                             IF c.error_message = NoneStr THEN jobs[j].error_message
                             ELSE c.error_message
                       /\ jobs'[j].agent_results = jobs[j].agent_results
                       /\ Artifact(jobs'[j]) = Artifact(jobs[j])
                       /\ jobs'[j].test_results = jobs[j].test_results]_vars

\* A failure has been merged into a record that held a progress report, an
\* audit entry, a script and test results, next to the record of another job:
\* a bare status change follows and keeps step, message and both keys.
C34_BareUpdateAfterFailure ==
    /\ last_call.op = "update_job_status"
    /\ "args" \in DOMAIN last_call
    /\ last_call.job_id = 1
    /\ last_call.args.current_step = None
    /\ jobs[1] # NoJob
    /\ jobs[2] # NoJob
    /\ jobs[1].status = PENDING
    /\ jobs[1].error_message = "Testing failed"
    /\ DOMAIN jobs[1].progress_details = {"phase", "failure_reason"}
    /\ Len(jobs[1].agent_results) = 1
    /\ jobs[1].generated_script = ScriptOf(1)
    /\ jobs[1].test_results # None

\* C35: no caller is in an S3 transfer while it holds the write lock.
C35_NoTransferUnderLock ==
    \A c \in Callers : calls[c].pc = "uploading" => write_lock # c

-----------------------------------------------------------------------------
(* Properties of the jobs file under several processes, checked under WorkerSpec *)

\* This step is a write of the worker that runs job j.
WorkerWrites(j) == wjobs'[j] # wjobs[j] /\ wpc[j] = "s3_loaded"

\* C36: while two workers run different jobs, a write made by the worker of
\* one job leaves the persisted record of the other job as it was, and the
\* persisted progress of that job does not go back.
C36_WorkersKeepEachOthersUpdates ==
    [][\A a, b \in WorkerJobs :
          (a # b /\ WorkerWrites(b) /\ wpc[a] \in {"s3_loaded", "workflow"}) =>
              /\ jobs_file'[a] = jobs_file[a]
              /\ (jobs_file[a] # NoJob /\ jobs_file'[a] # NoJob) =>
                    StepsDone(jobs_file[a]) <= StepsDone(jobs_file'[a])]_vars

\* The worker of job j has written to the store of its process.
WorkerHasWritten(j) ==
    /\ wpc[j] \in {"s3_loaded", "workflow", "returned"}
    /\ wjobs[j][j] # NoJob
    /\ StepsDone(wjobs[j][j]) >= 1

\* C37: once the worker of a job has written a status and an artifact for
\* it, get_job in the admission process returns a record with that status
\* and that artifact.
C37_AdmissionSeesWorkerWrites ==
    \A j \in WorkerJobs :
        (WorkerHasWritten(j) /\ jobs[j] # NoJob) =>
            /\ get_job(jobs, j).record.status = wjobs[j][j].status
            /\ Artifact(get_job(jobs, j).record) = Artifact(wjobs[j][j])

\* The submissions of SameId a worker is running.
RunningSameId == {s \in Submissions : future[s].state = "running"}

\* C38: at most one worker at a time runs the job id, also when the id has
\* been submitted twice.
C38_OneWorkerPerJobId == Cardinality(RunningSameId) <= 1

-----------------------------------------------------------------------------
(* Properties of removals, checked under StoreSpec and RetentionSpec *)

\* C39: when a step removes a job from the table, by delete_job or by
\* cleanup_completed_jobs, the table a restarted process loads from the jobs
\* file does not hold that job.
C39_RemovalIsDurable ==
    [][\A j \in JobIds :
          (jobs[j] # NoJob /\ jobs'[j] = NoJob) =>
              _load_jobs(jobs_file')[j] = NoJob]_vars

-----------------------------------------------------------------------------
(* Properties of completed training jobs, checked under Spec *)

\* C40: every training job whose status is COMPLETED has a stored script and
\* script path and no error message.
C40_CompletedHasArtifactAndNoError ==
    \A j \in DirectJobs :
        (jobs[j] # NoJob /\ jobs[j].mode = TRAINING /\ jobs[j].status = COMPLETED) =>
            /\ jobs[j].generated_script # NoneStr
            /\ jobs[j].generated_script_path # NoneStr
            /\ jobs[j].error_message = NoneStr

C40_CompletedAfterCoderFailure ==
    \E j \in DirectJobs :
        /\ TrainingRun(j)
        /\ jobs[j].status = COMPLETED
        /\ jobs[j].generated_script = ScriptOf(current_cycle[j])
        /\ Len(previous_attempts[j]) >= 1
        /\ ~Get(previous_attempts[j][1].coder_result, "success", TRUE)

-----------------------------------------------------------------------------
====
